---- MODULE Spec2Model ----
(***************************************************************************)
(* A model of the candidate evaluation core of logis_career_ai:            *)
(* the hard rejection gate (core/rules/hard_rejection_engine.py), the      *)
(* weight optimiser, the score aggregator, the contextual adjuster, the    *)
(* confidence calculator, the section scorers and the feature interaction  *)
(* detector (core/scoring/), and the shared embedding model with the       *)
(* semantic similarity scorer (ml/).                                       *)
(*                                                                         *)
(* Python strings are sequences of one-character strings, so that          *)
(* lower(), strip() and the `in` substring test are computed.  Optional    *)
(* values are records: None, or Some(v).                                   *)
(***************************************************************************)
EXTENDS Integers, Sequences, FiniteSets, TLC

VARIABLES
    job,          \* the Job handed to the call (read-only input)
    candidate,    \* the Candidate handed to the call (read-only input)
    now,          \* the wall clock read by datetime.now(): [day, midnight]
    pc,           \* position of HardRejectionEngine.evaluate: "HR-001".."HR-008",
                  \* "all_passed", "returned", "raised"; "idle" when no gate call runs
    rule_trace,   \* the local list rule_trace of evaluate
    result,       \* the HardRejectionResult returned (None while running)
    call,         \* which call on these inputs is running: 1 or 2
    first,        \* what the first call ended with (None until the second starts)
    op,           \* the operation being called: "gate", "evaluate", or a scoring method
    args,         \* the remaining arguments of a scoring method call
    ret,          \* how a scoring method call ended (None while pending)
    stage_log,    \* the stages the evaluation pipeline has run, in order
    evaluation,   \* the EvaluationResult of the pipeline (None while pending)
    embedding_model,        \* the class attributes of EmbeddingModel: _model and _lock
    sentence_transformers,  \* the embedding provider, as ml/embedding_model.py imports it
    thread        \* the threads calling into EmbeddingModel and its users

\* The state of ml/embedding_model.py and of the threads inside it.
mlVars == <<embedding_model, sentence_transformers, thread>>

vars == <<mlVars, job, candidate, now, pc, rule_trace, result, call, first,
          op, args, ret, stage_log, evaluation>>

\* What a step of HardRejectionEngine.evaluate leaves alone.
gateFrame == <<mlVars, job, candidate, now, call, first, op, args, ret, stage_log, evaluation>>

----------------------------------------------------------------------------
(* Optional values *)

None == [some |-> FALSE]

Some(x) == [some |-> TRUE, v |-> x]

\* Nothing is loaded, the lock is free and no thread is inside the class.
NoEmbeddingCalls ==
    /\ embedding_model = [model |-> None, lock |-> None]
    /\ sentence_transformers = [available |-> TRUE, instances |-> 0, output |-> <<>>]
    /\ thread = <<>>

\* Python truthiness of an Optional[str]: None and "" are falsy.
TruthyStr(o) == o.some /\ Len(o.v) > 0

\* `o or ""` for an Optional[str].
OrEmpty(o) == IF o.some THEN o.v ELSE <<>>

----------------------------------------------------------------------------
(* Strings *)

UpperLetters == <<"A","B","C","D","E","F","G","H","I","J","K","L","M",
                  "N","O","P","Q","R","S","T","U","V","W","X","Y","Z">>

LowerLetters == <<"a","b","c","d","e","f","g","h","i","j","k","l","m",
                  "n","o","p","q","r","s","t","u","v","w","x","y","z">>

LowerChar(c) ==
    IF \E i \in DOMAIN UpperLetters : UpperLetters[i] = c
    THEN LowerLetters[CHOOSE i \in DOMAIN UpperLetters : UpperLetters[i] = c]
    ELSE c

\* str.lower()
Lower(s) == [i \in 1..Len(s) |-> LowerChar(s[i])]

\* The characters str.strip() and str.split() take for white space.
Whitespace == {" ", "\t", "\n"}

RECURSIVE LStrip(_)
LStrip(s) == IF s # <<>> /\ Head(s) \in Whitespace THEN LStrip(Tail(s)) ELSE s

RECURSIVE RStrip(_)
RStrip(s) ==
    IF s # <<>> /\ s[Len(s)] \in Whitespace THEN RStrip(SubSeq(s, 1, Len(s) - 1)) ELSE s

\* str.strip()
Strip(s) == RStrip(LStrip(s))

\* `k in s` for two strings
Contains(k, s) ==
    \E i \in 0..(Len(s) - Len(k)) : SubSeq(s, i + 1, i + Len(k)) = k

\* HardRejectionEngine._normalize_string: (s or "").strip().lower()
NormalizeString(o) == Lower(Strip(OrEmpty(o)))

----------------------------------------------------------------------------
(* String literals used as inputs *)

\* The strings the inputs are made of.
Str ==
    [UAE |-> <<"U","A","E">>,
     uae_padded |-> <<" ","u","a","e">>,
     India |-> <<"I","n","d","i","a">>,
     WorkVisa |-> <<"W","o","r","k"," ","V","i","s","a">>,
     VisitVisa |-> <<"V","i","s","i","t"," ","V","i","s","a">>,
     Indian |-> <<"I","n","d","i","a","n">>,
     indian_padded |-> <<"i","n","d","i","a","n"," ">>,
     Emirati |-> <<"E","m","i","r","a","t","i">>,
     PhD |-> <<"P","h","D">>,
     Doctorate |-> <<"D","o","c","t","o","r","a","t","e">>,
     Masters |-> <<"M","a","s","t","e","r","s">>,
     MasterOfArts |-> <<"M","a","s","t","e","r"," ","o","f"," ","A","r","t","s">>,
     Bachelors |-> <<"B","a","c","h","e","l","o","r","s">>,
     Bachelor |-> <<"B","a","c","h","e","l","o","r">>,
     Diploma |-> <<"D","i","p","l","o","m","a">>,
     HighSchool |-> <<"H","i","g","h"," ","S","c","h","o","o","l">>,
     Secondary |-> <<"S","e","c","o","n","d","a","r","y">>,
     MBA |-> <<"M","B","A">>,
     BachelorsThenPhD |-> <<"B","a","c","h","e","l","o","r","s",","," ","P","h","D"," ","o","n","g","o","i","n","g">>,
     Blank |-> <<" "," ">>,
     Empty |-> <<>>]


\* valid_visa_statuses of HR-001
valid_visa_statuses ==
    << <<"w","o","r","k"," ","v","i","s","a">>,
       <<"w","o","r","k"," ","p","e","r","m","i","t">>,
       <<"c","i","t","i","z","e","n">>,
       <<"p","e","r","m","a","n","e","n","t"," ","r","e","s","i","d","e","n","t">>,
       <<"p","r">>,
       <<"n","a","t","i","o","n","a","l","i","t","y">>,
       <<"n","a","t","i","o","n","a","l">> >>


\* education_hierarchy of HR-007, in the dict's insertion order
education_hierarchy ==
    << [key |-> <<"p","h","d">>, level |-> 5],
       [key |-> <<"d","o","c","t","o","r","a","t","e">>, level |-> 5],
       [key |-> <<"m","a","s","t","e","r","s">>, level |-> 4],
       [key |-> <<"m","a","s","t","e","r">>, level |-> 4],
       [key |-> <<"b","a","c","h","e","l","o","r","s">>, level |-> 3],
       [key |-> <<"b","a","c","h","e","l","o","r">>, level |-> 3],
       [key |-> <<"d","i","p","l","o","m","a">>, level |-> 2],
       [key |-> <<"h","i","g","h"," ","s","c","h","o","o","l">>, level |-> 1],
       [key |-> <<"s","e","c","o","n","d","a","r","y">>, level |-> 1] >>

----------------------------------------------------------------------------
(* HardRejectionEngine: configuration *)

SALARY_TOLERANCE_PERCENT == 10

MAX_EXPERIENCE_TOLERANCE_YEARS == 3

VISA_EXPIRY_WARNING_DAYS == 90

\* Rule codes in the order evaluate checks them.
RuleCodes ==
    <<"HR-001", "HR-002", "HR-003", "HR-004", "HR-005", "HR-006", "HR-007", "HR-008">>

CheckingTokens ==
    <<"HR-001:CHECKING_LOCATION_AND_VISA", "HR-002:CHECKING_VISA_EXPIRY",
      "HR-003:CHECKING_SALARY", "HR-004:CHECKING_MIN_EXPERIENCE",
      "HR-005:CHECKING_MAX_EXPERIENCE", "HR-006:CHECKING_NATIONALITY",
      "HR-007:CHECKING_EDUCATION", "HR-008:CHECKING_GCC_EXPERIENCE">>

PassedTokens ==
    <<"HR-001:PASSED", "HR-002:PASSED", "HR-003:PASSED", "HR-004:PASSED",
      "HR-005:PASSED", "HR-006:PASSED", "HR-007:PASSED", "HR-008:PASSED">>

FailedTokens ==
    <<"HR-001:FAILED", "HR-002:FAILED", "HR-003:FAILED", "HR-004:FAILED",
      "HR-005:FAILED", "HR-006:FAILED", "HR-007:FAILED", "HR-008:FAILED">>

PASSED_ALL == "PASSED_ALL_HARD_RULES"

Rules == DOMAIN RuleCodes

\* The position after rule k: the next rule, or the final append and return.
NextPc(k) == IF k < Len(RuleCodes) THEN RuleCodes[k + 1] ELSE "all_passed"

----------------------------------------------------------------------------
(* HR-001: location and work authorization *)

\* any(status in visa_status for status in valid_visa_statuses)
HasWorkAuth(c) ==
    \E i \in DOMAIN valid_visa_statuses :
        Contains(valid_visa_statuses[i], NormalizeString(c.visa_status))

HR001Fails(j, c) ==
    /\ NormalizeString(Some(c.current_country)) # NormalizeString(Some(j.country))
    /\ ~HasWorkAuth(c)

----------------------------------------------------------------------------
(* HR-002: visa expiry.  A visa_expiry string is kept by what                *)
(* datetime.fromisoformat makes of it: fmt "junk" is not an ISO date          *)
(* (ValueError), fmt "iso" is the date `day` at 00:00, with a UTC offset or   *)
(* a trailing Z when tz holds; fmt "empty" is the empty string.               *)

\* _parse_date: None for a falsy or unparseable string, else the datetime.
ParseDate(o) ==
    IF ~o.some \/ o.v.fmt = "empty" THEN None
    ELSE IF o.v.fmt = "iso" THEN Some([day |-> o.v.day, aware |-> o.v.tz])
    ELSE None

\* (expiry_date - today).days for a naive expiry: timedelta.days is the floor,
\* so any time of day after 00:00 takes one whole day off.
DaysUntil(expiry, today) ==
    expiry.day - today.day - (IF today.midnight THEN 0 ELSE 1)

\* What the HR-002 block does: "pass", "fail", or "raise" (TypeError: the
\* naive datetime.now() is subtracted from an offset-aware expiry date).
HR002Outcome(c, today) ==
    IF ~(c.visa_expiry.some /\ c.visa_expiry.v.fmt # "empty") THEN "pass"
    ELSE LET expiry_date == ParseDate(c.visa_expiry) IN
         IF ~expiry_date.some THEN "pass"
         ELSE IF expiry_date.v.aware THEN "raise"
         ELSE IF DaysUntil(expiry_date.v, today) < VISA_EXPIRY_WARNING_DAYS
              THEN "fail"
              ELSE "pass"

----------------------------------------------------------------------------
(* HR-003 .. HR-008 *)

\* HR-003 with >= for >: the tolerance itself is rejected.
HR003FailsAtTolerance(j, c) ==
    c.expected_salary * 100 >= j.salary_max * (100 + SALARY_TOLERANCE_PERCENT)

\* expected_salary > salary_max * (1 + 10 / 100).  Both salaries are ints; the
\* double 1.1 is a little above 11/10 and the gap to the nearest integer is
\* never below 1/10, so the float comparison is this integer comparison.
HR003Fails(j, c) ==
    c.expected_salary * 100 > j.salary_max * (100 + SALARY_TOLERANCE_PERCENT)

\* HR-004 admitting a candidate with 70% of the minimum, the share the
\* interaction detector asks for.
HR004FailsBelowSeventyPercent(j, c) ==
    10 * c.total_experience_years < 7 * j.min_experience_years

HR004Fails(j, c) == c.total_experience_years < j.min_experience_years

\* HR-005 with a tolerance of 5 years, the distance at which the adjuster's
\* severe-overqualification rule starts.
HR005FailsBeyondFiveYears(j, c) ==
    /\ j.max_experience_years.some
    /\ c.total_experience_years > j.max_experience_years.v + 5

HR005Fails(j, c) ==
    /\ j.max_experience_years.some
    /\ c.total_experience_years >
           j.max_experience_years.v + MAX_EXPERIENCE_TOLERANCE_YEARS

HR006Fails(j, c) ==
    /\ Len(j.preferred_nationality) > 0
    /\ ~\E i \in DOMAIN j.preferred_nationality :
           NormalizeString(Some(j.preferred_nationality[i]))
               = NormalizeString(Some(c.nationality))

\* The two loops over education_hierarchy.items(): the level of the first key
\* (in table order) that occurs in the string, 0 when none does.
EducationLevel(s) ==
    LET hits == {i \in DOMAIN education_hierarchy :
                    Contains(education_hierarchy[i].key, s)}
    IN  IF hits = {} THEN 0
        ELSE education_hierarchy[CHOOSE i \in hits : \A h \in hits : i <= h].level

\* HR-007 with <= for <: the required level itself is rejected.
HR007FailsOnEqualLevel(j, c) ==
    /\ TruthyStr(j.required_education)
    /\ LET required_level == EducationLevel(NormalizeString(j.required_education))
           candidate_level == EducationLevel(NormalizeString(c.education_level))
       IN  required_level > 0 /\ candidate_level <= required_level

HR007Fails(j, c) ==
    /\ TruthyStr(j.required_education)
    /\ LET required_level == EducationLevel(NormalizeString(j.required_education))
           candidate_level == EducationLevel(NormalizeString(c.education_level))
       IN  required_level > 0 /\ candidate_level < required_level

\* gcc_years = candidate.gcc_experience_years or 0
HR008Fails(j, c) ==
    /\ j.require_gcc_experience
    /\ (IF c.gcc_experience_years.some THEN c.gcc_experience_years.v ELSE 0) = 0

----------------------------------------------------------------------------
(* HardRejectionEngine.evaluate, one step per rule block *)

Running == pc \in {RuleCodes[k] : k \in Rules} \cup {"all_passed"}

\* A failing block without its return statement: the next block runs.
RejectWithoutReturn(k, reason) ==
    LET t == rule_trace \o <<CheckingTokens[k], FailedTokens[k]>> IN
    /\ rule_trace' = t
    /\ result' = Some([is_eligible |-> FALSE,
                       rejection_reason |-> Some(reason),
                       rejection_rule_code |-> Some(RuleCodes[k]),
                       rule_trace |-> t])
    /\ pc' = NextPc(k)

\* rule_trace.append(CHECKING); rule_trace.append(FAILED); return HardRejectionResult(False, ...)
Reject(k, reason) ==
    LET t == rule_trace \o <<CheckingTokens[k], FailedTokens[k]>> IN
    /\ rule_trace' = t
    /\ result' = Some([is_eligible |-> FALSE,
                       rejection_reason |-> Some(reason),
                       rejection_rule_code |-> Some(RuleCodes[k]),
                       rule_trace |-> t])
    /\ pc' = "returned"

\* rule_trace.append(CHECKING); rule_trace.append(PASSED); fall through to the next block
Pass(k) ==
    /\ rule_trace' = rule_trace \o <<CheckingTokens[k], PassedTokens[k]>>
    /\ pc' = NextPc(k)
    /\ UNCHANGED result

\* The exception leaves evaluate after CHECKING was appended; nothing is returned.
Raise(k) ==
    /\ rule_trace' = rule_trace \o <<CheckingTokens[k]>>
    /\ pc' = "raised"
    /\ UNCHANGED result

HR001 ==
    /\ pc = "HR-001"
    /\ IF HR001Fails(job, candidate)
       THEN Reject(1, "Candidate does not have work authorization")
       ELSE Pass(1)
    /\ UNCHANGED gateFrame

HR002 ==
    /\ pc = "HR-002"
    /\ LET o == HR002Outcome(candidate, now) IN
       IF o = "fail" THEN Reject(2, "Candidate's visa expires within 90 days")
       ELSE IF o = "raise" THEN Raise(2)
       ELSE Pass(2)
    /\ UNCHANGED gateFrame

HR003 ==
    /\ pc = "HR-003"
    /\ IF HR003Fails(job, candidate)
       THEN Reject(3, "Candidate expected salary exceeds job maximum by more than 10%")
       ELSE Pass(3)
    /\ UNCHANGED gateFrame

HR004 ==
    /\ pc = "HR-004"
    /\ IF HR004Fails(job, candidate)
       THEN Reject(4, "Candidate experience is below minimum requirement")
       ELSE Pass(4)
    /\ UNCHANGED gateFrame

HR005 ==
    /\ pc = "HR-005"
    /\ IF HR005Fails(job, candidate)
       THEN Reject(5, "Candidate is overqualified")
       ELSE Pass(5)
    /\ UNCHANGED gateFrame

HR006 ==
    /\ pc = "HR-006"
    /\ IF HR006Fails(job, candidate)
       THEN Reject(6, "Job requires specific nationality")
       ELSE Pass(6)
    /\ UNCHANGED gateFrame

HR007 ==
    /\ pc = "HR-007"
    /\ IF HR007Fails(job, candidate)
       THEN Reject(7, "Candidate education does not meet minimum requirement")
       ELSE Pass(7)
    /\ UNCHANGED gateFrame

HR008 ==
    /\ pc = "HR-008"
    /\ IF HR008Fails(job, candidate)
       THEN Reject(8, "Job requires prior GCC work experience, but candidate has none")
       ELSE Pass(8)
    /\ UNCHANGED gateFrame

\* rule_trace.append("PASSED_ALL_HARD_RULES"); return HardRejectionResult(True, None, None, rule_trace)
PassedAllHardRules ==
    /\ pc = "all_passed"
    /\ LET t == Append(rule_trace, PASSED_ALL) IN
       /\ rule_trace' = t
       /\ result' = Some([is_eligible |-> TRUE,
                          rejection_reason |-> None,
                          rejection_rule_code |-> None,
                          rule_trace |-> t])
    /\ pc' = "returned"
    /\ UNCHANGED gateFrame

GateStep ==
    \/ HR001 \/ HR002 \/ HR003 \/ HR004 \/ HR005 \/ HR006 \/ HR007 \/ HR008
    \/ PassedAllHardRules

----------------------------------------------------------------------------
(* Inputs.  A Job and a Candidate carry the fields the modelled code reads;  *)
(* the base records pass every rule of the gate.                             *)

MaxSalaryMax == 20

MaxClockDays == 1

BaseJob ==
    [country |-> Str.UAE,
     min_experience_years |-> 3,
     max_experience_years |-> Some(5),
     require_gcc_experience |-> FALSE,
     salary_max |-> 20,
     required_education |-> None,
     preferred_nationality |-> <<>>]

BaseCandidate ==
    [nationality |-> Str.Indian,
     current_country |-> Str.UAE,
     visa_status |-> Some(Str.WorkVisa),
     visa_expiry |-> None,
     expected_salary |-> 20,
     total_experience_years |-> 5,
     gcc_experience_years |-> None,
     education_level |-> None]

IsoDate(d, z) == Some([fmt |-> "iso", day |-> d, tz |-> z])

JunkDate == Some([fmt |-> "junk"])

EmptyDate == Some([fmt |-> "empty"])

Midnight(d) == [day |-> d, midnight |-> TRUE]

Clocks == {[day |-> d, midnight |-> m] : d \in 0..MaxClockDays, m \in BOOLEAN}

\* Jobs and candidates that make the rules fail in every combination.
CrossJobs ==
    {[BaseJob EXCEPT !.max_experience_years = mx,
                     !.preferred_nationality = pn,
                     !.required_education = re,
                     !.require_gcc_experience = g] :
        mx \in {None, Some(5)},
        pn \in {<<>>, <<Str.Emirati, Str.Indian>>},
        re \in {None, Some(Str.Masters)},
        g \in BOOLEAN}

CrossCandidates ==
    {[BaseCandidate EXCEPT !.current_country = cc,
                           !.visa_status = vs,
                           !.visa_expiry = ve,
                           !.expected_salary = es,
                           !.total_experience_years = te,
                           !.nationality = na,
                           !.education_level = ed,
                           !.gcc_experience_years = ge] :
        cc \in {Str.uae_padded, Str.India},
        vs \in {Some(Str.WorkVisa), Some(Str.VisitVisa)},
        ve \in {None, JunkDate,
                IsoDate(VISA_EXPIRY_WARNING_DAYS - 1, FALSE),
                IsoDate(VISA_EXPIRY_WARNING_DAYS, FALSE),
                IsoDate(VISA_EXPIRY_WARNING_DAYS, TRUE)},
        es \in {22, 23},
        te \in {2, 5, 9},
        na \in {Str.indian_padded, Str.India},
        ed \in {Some(Str.Bachelors), Some(Str.PhD)},
        ge \in {None, Some(2)}}

\* The clock against the expiry date, nothing else failing.
ClockCandidates ==
    {[BaseCandidate EXCEPT !.visa_status = vs, !.visa_expiry = ve] :
        vs \in {None, Some(Str.VisitVisa)},
        ve \in {None, EmptyDate, JunkDate}
               \cup {IsoDate(d, z) :
                        d \in (VISA_EXPIRY_WARNING_DAYS - 1)
                                ..(VISA_EXPIRY_WARNING_DAYS + MaxClockDays + 1),
                        z \in BOOLEAN}}

\* Salaries around the tolerance, HR-001 and HR-002 passing.
SalaryJobs == {[BaseJob EXCEPT !.salary_max = s] : s \in 0..MaxSalaryMax}

SalaryCandidates ==
    {[BaseCandidate EXCEPT !.expected_salary = e] :
        e \in 0..((MaxSalaryMax * (100 + SALARY_TOLERANCE_PERCENT)) \div 100 + 2)}

EducationStrings ==
    {Str.PhD, Str.Doctorate, Str.Masters, Str.MasterOfArts, Str.Bachelors, Str.Bachelor,
     Str.Diploma, Str.HighSchool, Str.Secondary, Str.MBA, Str.BachelorsThenPhD, Str.Blank,
     Str.Empty}

EducationJobs ==
    {[BaseJob EXCEPT !.required_education = re] :
        re \in {None} \cup {Some(s) : s \in EducationStrings}}

EducationCandidates ==
    {[BaseCandidate EXCEPT !.education_level = ed] :
        ed \in {None} \cup {Some(s) : s \in EducationStrings}}

InitCall ==
    /\ pc = "HR-001"
    /\ rule_trace = <<>>
    /\ result = None
    /\ call = 1
    /\ first = None
    /\ op = "gate"
    /\ args = None
    /\ ret = None
    /\ stage_log = <<>>
    /\ evaluation = None
    /\ NoEmbeddingCalls

Init ==
    /\ \/ job \in CrossJobs /\ candidate \in CrossCandidates /\ now = Midnight(0)
       \/ job = BaseJob /\ candidate \in ClockCandidates /\ now \in Clocks
       \/ job \in SalaryJobs /\ candidate \in SalaryCandidates /\ now = Midnight(0)
       \/ job \in EducationJobs /\ candidate \in EducationCandidates /\ now = Midnight(0)
    /\ InitCall

Next == GateStep

Spec == Init /\ [][Next]_vars

----------------------------------------------------------------------------
(* The gate: what a finished call looks like *)

Finished == pc \in {"returned", "raised"}

Returned == pc = "returned" /\ result.some

TraceHas(tok) == \E i \in DOMAIN rule_trace : rule_trace[i] = tok

FailedTokenSet == {FailedTokens[k] : k \in Rules}

RECURSIVE PassedPrefix(_)
\* 'HR-00i:CHECKING...', 'HR-00i:PASSED' for i = 1..n
PassedPrefix(n) ==
    IF n = 0 THEN <<>>
    ELSE PassedPrefix(n - 1) \o <<CheckingTokens[n], PassedTokens[n]>>

RejectionTrace(k) == PassedPrefix(k - 1) \o <<CheckingTokens[k], FailedTokens[k]>>

EligibleTrace == Append(PassedPrefix(Len(RuleCodes)), PASSED_ALL)

\* The failure condition of rule k as section 4.1 of the specification states
\* it, for the inputs of the running call at the current time.
FailureCondition(k) ==
    CASE k = 1 -> HR001Fails(job, candidate)
      [] k = 2 -> LET d == ParseDate(candidate.visa_expiry) IN
                  d.some /\ DaysUntil(d.v, now) < VISA_EXPIRY_WARNING_DAYS
      [] k = 3 -> HR003Fails(job, candidate)
      [] k = 4 -> HR004Fails(job, candidate)
      [] k = 5 -> HR005Fails(job, candidate)
      [] k = 6 -> HR006Fails(job, candidate)
      [] k = 7 -> HR007Fails(job, candidate)
      [] k = 8 -> HR008Fails(job, candidate)

LowestFailing(k) == FailureCondition(k) /\ \A i \in 1..(k - 1) : ~FailureCondition(i)

----------------------------------------------------------------------------
(* C1: a token ending in :FAILED is the last token of the rule trace, while  *)
(* evaluate runs and in the trace it returns: once HR-00k:FAILED is          *)
(* appended, no token of a later rule and no PASSED_ALL_HARD_RULES follows.  *)
C1_FailedTokenIsLast ==
    /\ \A i \in DOMAIN rule_trace :
          rule_trace[i] \in FailedTokenSet => i = Len(rule_trace)
    /\ result.some =>
          /\ result.v.rule_trace = rule_trace
          /\ \A i \in DOMAIN result.v.rule_trace :
                result.v.rule_trace[i] \in FailedTokenSet
                    => i = Len(result.v.rule_trace)

\* A call rejected by HR-003 with five rules left unchecked.
C1_Witness ==
    /\ Returned
    /\ result.v.rule_trace = RejectionTrace(3)
    /\ FailureCondition(4) /\ FailureCondition(6) /\ FailureCondition(8)

(* C2: the rules are checked in the order HR-001..HR-008 and the lowest-      *)
(* numbered rule whose failure condition holds decides: the call ends with   *)
(* is_eligible false, that rule's code, a reason, and the trace of 2k tokens *)
(* HR-001..HR-00(k-1) passed, HR-00k failed.                                 *)
C2_LowestFailingRuleDecides ==
    Finished =>
        \A k \in Rules :
            LowestFailing(k) =>
                /\ result.some
                /\ result.v.is_eligible = FALSE
                /\ result.v.rejection_rule_code = Some(RuleCodes[k])
                /\ result.v.rejection_reason.some
                /\ result.v.rule_trace = RejectionTrace(k)
                /\ Len(result.v.rule_trace) = 2 * k

(* C3: the call returns is_eligible true exactly when no rule's failure      *)
(* condition holds, then with no reason, no code and the 17-token trace      *)
(* ending in PASSED_ALL_HARD_RULES; and is_eligible is false exactly when a  *)
(* rule code is set.                                                         *)
C3_EligibleIffNoRuleFails ==
    Finished =>
        /\ (result.some /\ result.v.is_eligible)
              <=> (\A k \in Rules : ~FailureCondition(k))
        /\ (result.some /\ result.v.is_eligible) =>
              /\ result.v.rejection_reason = None
              /\ result.v.rejection_rule_code = None
              /\ result.v.rule_trace = EligibleTrace
              /\ Len(result.v.rule_trace) = 2 * Len(RuleCodes) + 1
        /\ result.some =>
              (result.v.is_eligible = FALSE <=> result.v.rejection_rule_code.some)

\* What C2 and C3 say of the calls that return: it holds, the calls that
\* raise in HR-002 are the only ones that break them.
ReturnedCallsDecidedInOrder ==
    Returned =>
        /\ \A k \in Rules :
              LowestFailing(k) =>
                  /\ result.v.rejection_rule_code = Some(RuleCodes[k])
                  /\ result.v.rule_trace = RejectionTrace(k)
        /\ result.v.is_eligible <=> (\A k \in Rules : ~FailureCondition(k))
        /\ result.v.is_eligible => result.v.rule_trace = EligibleTrace

----------------------------------------------------------------------------
(* C9: once HR-001 and HR-002 have passed, HR-003 fails exactly when         *)
(* expected_salary > 1.10 x salary_max, for every salary_max >= 0: an         *)
(* expected salary of exactly 1.10 x salary_max passes, one more is          *)
(* rejected with the code HR-003.                                            *)
C9_SalaryBoundary ==
    LET over == candidate.expected_salary * 10 > job.salary_max * 11
        exact == candidate.expected_salary * 10 = job.salary_max * 11
        oneMore == (candidate.expected_salary - 1) * 10 = job.salary_max * 11
    IN  (TraceHas(PassedTokens[2]) /\ pc # "HR-003") =>
            /\ TraceHas(FailedTokens[3]) <=> over
            /\ TraceHas(PassedTokens[3]) <=> ~over
            /\ exact => TraceHas(PassedTokens[3])
            /\ oneMore => /\ Returned
                          /\ result.v.is_eligible = FALSE
                          /\ result.v.rejection_rule_code = Some(RuleCodes[3])

\* A positive salary_max and an expected salary exactly on the tolerance: passed.
C9_Witness ==
    /\ job.salary_max > 0
    /\ candidate.expected_salary * 10 = job.salary_max * 11
    /\ TraceHas(PassedTokens[3])

----------------------------------------------------------------------------
(* The rank the keyword table gives an education string, first keyword in   *)
(* table order: phd/doctorate 5, masters/master 4, bachelors/bachelor 3,     *)
(* diploma 2, high school/secondary 1, otherwise 0.                          *)
TableRank(o) ==
    LET s == Lower(Strip(OrEmpty(o))) IN
    IF Contains(Lower(Str.PhD), s) \/ Contains(Lower(Str.Doctorate), s) THEN 5
    ELSE IF Contains(Lower(Str.Masters), s) \/ Contains(SubSeq(Lower(Str.Masters), 1, 6), s) THEN 4
    ELSE IF Contains(Lower(Str.Bachelors), s) \/ Contains(Lower(Str.Bachelor), s) THEN 3
    ELSE IF Contains(Lower(Str.Diploma), s) THEN 2
    ELSE IF Contains(Lower(Str.HighSchool), s) \/ Contains(Lower(Str.Secondary), s) THEN 1
    ELSE 0

(* C10: HR-007 fails exactly when the job states a required education of    *)
(* rank > 0 and the candidate's rank is lower.  Required Masters rejects     *)
(* Bachelors and accepts PhD; a candidate with no education level fails     *)
(* every recognised requirement; a requirement of rank 0 rejects nobody.     *)
C10_EducationGate ==
    LET required == TableRank(job.required_education)
        has == TableRank(candidate.education_level)
        stated == job.required_education.some /\ job.required_education.v # <<>>
    IN  (TraceHas(PassedTokens[6]) /\ pc # "HR-007") =>
            /\ TraceHas(FailedTokens[7]) <=> (stated /\ required > 0 /\ has < required)
            /\ TraceHas(PassedTokens[7]) <=> ~(stated /\ required > 0 /\ has < required)
            /\ job.required_education = Some(Str.Masters) =>
                  /\ candidate.education_level = Some(Str.Bachelors)
                        => TraceHas(FailedTokens[7])
                  /\ candidate.education_level = Some(Str.PhD)
                        => TraceHas(PassedTokens[7])
            /\ (stated /\ required > 0 /\ has >= required) => TraceHas(PassedTokens[7])
            /\ (required > 0 /\ ~candidate.education_level.some)
                  => TraceHas(FailedTokens[7])
            /\ required = 0 => TraceHas(PassedTokens[7])

\* Required Masters, candidate Bachelors: rejected by HR-007.
C10_Witness ==
    /\ job.required_education = Some(Str.Masters)
    /\ candidate.education_level = Some(Str.Bachelors)
    /\ Returned
    /\ result.v.rejection_rule_code = Some(RuleCodes[7])

----------------------------------------------------------------------------
(* Two calls of evaluate on the same Job and Candidate, the clock running    *)

\* What a call ended with: how it left, what it returned, the trace it built.
Outcome == [left |-> pc, result |-> result, rule_trace |-> rule_trace]

\* Time passes: from 00:00 into the day, or on to the next midnight.
Tick ==
    /\ now.midnight \/ now.day < MaxClockDays
    /\ now' = IF now.midnight THEN [now EXCEPT !.midnight = FALSE]
              ELSE [day |-> now.day + 1, midnight |-> TRUE]
    /\ UNCHANGED <<mlVars, job, candidate, pc, rule_trace, result, call, first,
                   op, args, ret, stage_log, evaluation>>

\* The caller keeps the first outcome and calls evaluate(job, candidate) again.
SecondCall ==
    /\ call = 1
    /\ Finished
    /\ first' = Some(Outcome)
    /\ call' = 2
    /\ pc' = "HR-001"
    /\ rule_trace' = <<>>
    /\ result' = None
    /\ UNCHANGED <<mlVars, job, candidate, now, op, args, ret, stage_log, evaluation>>

InitIdem ==
    /\ job = BaseJob
    /\ candidate \in ClockCandidates
                     \cup {[BaseCandidate EXCEPT !.expected_salary = e] : e \in {22, 23}}
    /\ now = Midnight(0)
    /\ InitCall

NextIdem == GateStep \/ Tick \/ SecondCall

SpecIdem == InitIdem /\ [][NextIdem]_vars

(* C7: two evaluations of the same Job and Candidate give the same result   *)
(* (the same gate outcome and the same rule trace), whenever each call is    *)
(* made.                                                                     *)
C7_SameInputsSameResult ==
    (call = 2 /\ Finished) => first = Some(Outcome)

----------------------------------------------------------------------------
(* The evaluation pipeline (the DecisionAssembler of the specification,      *)
(* section 2): the gate, then either REJECTED at once or the seven stages.   *)
(* The gate steps are those of HardRejectionEngine.evaluate above.           *)

StageOrder ==
    <<"scorers", "weights", "aggregate", "adjust", "interactions", "confidence",
      "classify">>

\* Decision thresholds shared with the confidence engine (85 / 60 / 40).
DecisionBand(score) ==
    IF score >= 85 THEN "STRONG_MATCH"
    ELSE IF score >= 60 THEN "POTENTIAL_MATCH"
    ELSE IF score >= 40 THEN "WEAK_MATCH"
    ELSE "NOT_RECOMMENDED"

GatePassed == pc = "returned" /\ result.some /\ result.v.is_eligible

GateRejected == pc = "returned" /\ result.some /\ ~result.v.is_eligible

\* if not gate.is_eligible: return the REJECTED result, total score 0
ReturnRejected ==
    /\ op = "evaluate"
    /\ GateRejected
    /\ evaluation = None
    /\ NoEmbeddingCalls
    /\ evaluation' = Some([decision |-> "REJECTED",
                           is_rejected |-> TRUE,
                           total_score |-> 0,
                           rejection_rule_code |-> result.v.rejection_rule_code,
                           rejection_reason |-> result.v.rejection_reason,
                           rule_trace |-> result.v.rule_trace])
    /\ UNCHANGED <<mlVars, job, candidate, now, pc, rule_trace, result, call, first,
                   op, args, ret, stage_log>>

\* Stage n of the pipeline runs when the gate passed and stages 1..n-1 have run.
RunStage(n) ==
    /\ op = "evaluate"
    /\ GatePassed
    /\ evaluation = None
    /\ NoEmbeddingCalls
    /\ Len(stage_log) = n - 1
    /\ stage_log' = Append(stage_log, StageOrder[n])
    /\ UNCHANGED <<mlVars, job, candidate, now, pc, rule_trace, result, call, first,
                   op, args, ret>>

\* scorers, weights, aggregate, adjust, interactions, confidence: each in its turn.
RunScoringStage ==
    \E n \in 1..(Len(StageOrder) - 1) : RunStage(n) /\ UNCHANGED evaluation

\* The last stage bands the total score and the result is returned.
Classify ==
    /\ RunStage(Len(StageOrder))
    /\ \E score \in {0, 40, 59, 60, 85, 100} :
          evaluation' = Some([decision |-> DecisionBand(score),
                              is_rejected |-> FALSE,
                              total_score |-> score,
                              rejection_rule_code |-> None,
                              rejection_reason |-> None,
                              rule_trace |-> result.v.rule_trace])

PipelineStep ==
    \/ ReturnRejected
    \/ RunScoringStage
    \/ Classify

PipelineCandidates ==
    {[BaseCandidate EXCEPT !.visa_expiry = ve,
                           !.expected_salary = es,
                           !.total_experience_years = te,
                           !.education_level = ed,
                           !.gcc_experience_years = ge] :
        ve \in {None, IsoDate(VISA_EXPIRY_WARNING_DAYS - 1, FALSE),
                IsoDate(VISA_EXPIRY_WARNING_DAYS, TRUE)},
        es \in {22, 23},
        te \in {2, 5, 9},
        ed \in {Some(Str.Bachelors), Some(Str.PhD)},
        ge \in {None, Some(2)}}

InitPipeline ==
    /\ job \in CrossJobs
    /\ candidate \in PipelineCandidates
    /\ now = Midnight(0)
    /\ pc = "HR-001"
    /\ rule_trace = <<>>
    /\ result = None
    /\ call = 1
    /\ first = None
    /\ op = "evaluate"
    /\ args = None
    /\ ret = None
    /\ stage_log = <<>>
    /\ evaluation = None
    /\ NoEmbeddingCalls

NextPipeline == GateStep \/ PipelineStep

SpecPipeline == InitPipeline /\ [][NextPipeline]_vars

IsPrefix(s, t) == Len(s) <= Len(t) /\ s = SubSeq(t, 1, Len(s))

----------------------------------------------------------------------------
(* Job objects as the scoring code reads them.  A Job of core/schemas/job.py *)
(* has the fields title, salary_min and salary_max; the scoring classes read *)
(* job.job_title, job.min_salary and job.max_salary.  An attribute slot says *)
(* whether the object handed in has the attribute at all: reading a missing  *)
(* attribute raises AttributeError, getattr(obj, name, None) gives None.     *)

NoAttr == [attr |-> FALSE]

Attr(x) == [attr |-> TRUE, v |-> x]

\* getattr(obj, name, None)
GetAttrOrNone(slot) == IF slot.attr THEN slot.v ELSE None

\* How a call ends.
Returns(x) == [raised |-> FALSE, value |-> x]

Raises(e) == [raised |-> TRUE, exc |-> e]

\* The largest required-skill list and profile text the inputs contain.
MaxSkillCount == 11

MaxProfileLen == 201

SkillNames ==
    [i \in 1..MaxSkillCount |->
        IF i = 1 THEN "python" ELSE IF i = 2 THEN "sql" ELSE IF i = 3 THEN "sap"
        ELSE IF i = 4 THEN "excel" ELSE "other"]

SkillList(n) == [i \in 1..n |-> SkillNames[i]]

ProfileText(n) == [i \in 1..n |-> "x"]

executive_keywords ==
    <<<<"d","i","r","e","c","t","o","r">>,
      <<"v","p">>,
      <<"v","i","c","e"," ","p","r","e","s","i","d","e","n","t">>,
      <<"c","h","i","e","f">>,
      <<"c","e","o">>,
      <<"c","o","o">>,
      <<"c","f","o">>,
      <<"h","e","a","d"," ","o","f">>>>

senior_keywords ==
    <<<<"s","e","n","i","o","r">>,
      <<"s","r",".">>,
      <<"s","r"," ">>,
      <<"l","e","a","d">>,
      <<"p","r","i","n","c","i","p","a","l">>,
      <<"s","t","a","f","f">>,
      <<"e","x","p","e","r","t">>>>

entry_keywords ==
    <<<<"j","u","n","i","o","r">>,
      <<"j","r",".">>,
      <<"j","r"," ">>,
      <<"e","n","t","r","y">>,
      <<"t","r","a","i","n","e","e">>,
      <<"i","n","t","e","r","n">>,
      <<"g","r","a","d","u","a","t","e">>,
      <<"a","s","s","o","c","i","a","t","e">>>>

\* Job titles of postings and of employment history entries.
Titles ==
    [LogisticsCoordinator |-> <<"L","o","g","i","s","t","i","c","s"," ","C","o","o","r","d","i","n","a","t","o","r">>,
     SeniorDirector |-> <<"S","e","n","i","o","r"," ","D","i","r","e","c","t","o","r">>,
     JuniorTeamLead |-> <<"J","u","n","i","o","r"," ","T","e","a","m"," ","L","e","a","d">>,
     GraduateTrainee |-> <<"G","r","a","d","u","a","t","e"," ","T","r","a","i","n","e","e">>,
     WarehouseClerk |-> <<"W","a","r","e","h","o","u","s","e"," ","C","l","e","r","k">>,
     SupplyChainManager |-> <<"S","u","p","p","l","y"," ","C","h","a","i","n"," ","M","a","n","a","g","e","r"," ","-"," ","G","C","C">>,
     SeniorAnalyst |-> <<"S","e","n","i","o","r"," ","A","n","a","l","y","s","t">>,
     Analyst |-> <<"A","n","a","l","y","s","t">>,
     Clerk |-> <<"C","l","e","r","k">>]

\* A Job instance: the schema's fields, none of the names the scorers read.
ScoringJob ==
    [country |-> Str.UAE,
     title |-> Titles.WarehouseClerk,
     job_title |-> NoAttr,
     min_experience_years |-> 3,
     max_experience_years |-> Some(5),
     require_gcc_experience |-> FALSE,
     salary_min |-> 10,
     salary_max |-> 20,
     min_salary |-> NoAttr,
     max_salary |-> NoAttr,
     required_skills |-> SkillList(2),
     desired_candidate_profile |-> None,
     required_education |-> None,
     preferred_nationality |-> <<>>]

\* The same posting as an object that also carries job_title, min_salary and
\* max_salary, which is what the scoring classes need to get past those reads.
WithScoringNames(j) ==
    [j EXCEPT !.job_title = Attr(Some(j.title)),
              !.min_salary = Attr(Some(j.salary_min)),
              !.max_salary = Attr(Some(j.salary_max))]

----------------------------------------------------------------------------
(* SmartWeightOptimizer (core/scoring/advanced_scorer.py).  A weight is a    *)
(* float in the code; here it is a whole number of 1/WeightScale, and every  *)
(* division rounds to the nearest unit as the float division rounds to the   *)
(* nearest float.                                                            *)

WeightScale == 10000

\* n / d to the nearest unit (n >= 0, d > 0).
RoundDiv(n, d) == (2 * n + d) \div (2 * d)

Hundredths(p) == (p * WeightScale) \div 100

JobLevels == {"entry", "mid", "senior", "executive", "unknown"}

WEIGHT_PROFILES ==
    [entry     |-> [skills |-> Hundredths(30), experience |-> Hundredths(10),
                    semantic |-> Hundredths(40), domain |-> Hundredths(20)],
     mid       |-> [skills |-> Hundredths(25), experience |-> Hundredths(20),
                    semantic |-> Hundredths(30), domain |-> Hundredths(25)],
     senior    |-> [skills |-> Hundredths(20), experience |-> Hundredths(25),
                    semantic |-> Hundredths(25), domain |-> Hundredths(30)],
     executive |-> [skills |-> Hundredths(15), experience |-> Hundredths(30),
                    semantic |-> Hundredths(20), domain |-> Hundredths(35)],
     unknown   |-> [skills |-> Hundredths(40), experience |-> Hundredths(20),
                    semantic |-> Hundredths(40), domain |-> Hundredths(0)]]

AnyKeywordIn(keywords, s) == \E i \in DOMAIN keywords : Contains(keywords[i], s)

\* determine_job_level with the checks in another order: the experience
\* thresholds first, the title keywords only below 2 years.
ExperienceBeforeTitle(j) ==
    IF ~j.job_title.attr THEN Raises("AttributeError")
    ELSE LET title_lower == IF TruthyStr(j.job_title.v)
                            THEN Lower(j.job_title.v.v) ELSE <<>>
         IN  IF j.min_experience_years >= 10 THEN Returns("executive")
             ELSE IF j.min_experience_years >= 5 THEN Returns("senior")
             ELSE IF j.min_experience_years >= 2 THEN Returns("mid")
             ELSE IF AnyKeywordIn(executive_keywords, title_lower) THEN Returns("executive")
             ELSE IF AnyKeywordIn(senior_keywords, title_lower) THEN Returns("senior")
             ELSE Returns("entry")

\* min_experience_years of an object that holds None there (no schema Job does)
NoMinimum == -1

\* determine_job_level without the last branch of the experience fallback:
\* below 2 years nothing is selected and the default is returned.
FallbackWithoutEntry(j) ==
    IF ~j.job_title.attr THEN Raises("AttributeError")
    ELSE LET title_lower == IF TruthyStr(j.job_title.v)
                            THEN Lower(j.job_title.v.v) ELSE <<>>
         IN  IF AnyKeywordIn(executive_keywords, title_lower) THEN Returns("executive")
             ELSE IF AnyKeywordIn(senior_keywords, title_lower) THEN Returns("senior")
             ELSE IF AnyKeywordIn(entry_keywords, title_lower) THEN Returns("entry")
             ELSE IF j.min_experience_years = NoMinimum THEN Returns("unknown")
             ELSE IF j.min_experience_years >= 10 THEN Returns("executive")
             ELSE IF j.min_experience_years >= 5 THEN Returns("senior")
             ELSE IF j.min_experience_years >= 2 THEN Returns("mid")
             ELSE Returns("unknown")

\* determine_job_level: Raises("AttributeError") when job has no job_title.
\* The experience fallback decides whenever min_experience_years is not None;
\* the final `return JobLevel.UNKNOWN` is left for an object that holds None.
determine_job_level(j) ==
    IF ~j.job_title.attr THEN Raises("AttributeError")
    ELSE LET title_lower == IF TruthyStr(j.job_title.v)
                            THEN Lower(j.job_title.v.v) ELSE <<>>
         IN  IF AnyKeywordIn(executive_keywords, title_lower) THEN Returns("executive")
             ELSE IF AnyKeywordIn(senior_keywords, title_lower) THEN Returns("senior")
             ELSE IF AnyKeywordIn(entry_keywords, title_lower) THEN Returns("entry")
             ELSE IF j.min_experience_years = NoMinimum THEN Returns("unknown")
             ELSE IF j.min_experience_years >= 10 THEN Returns("executive")
             ELSE IF j.min_experience_years >= 5 THEN Returns("senior")
             ELSE IF j.min_experience_years >= 2 THEN Returns("mid")
             ELSE Returns("entry")

SumWeights(w) == w.skills + w.experience + w.semantic + w.domain

\* The weights handed back without dividing by their total.
LeaveUnnormalized(w) == w

\* total = sum(weights.values()); if total > 0: {k: v / total}
Normalize(w) ==
    LET total == SumWeights(w) IN
    IF total > 0
    THEN [k \in DOMAIN w |-> RoundDiv(w[k] * WeightScale, total)]
    ELSE w

get_optimized_weights(j) ==
    LET job_level == determine_job_level(j) IN
    IF job_level.raised THEN job_level
    ELSE Returns([weights |-> Normalize(WEIGHT_PROFILES[job_level.value]),
                  profile_name |-> job_level.value])

Min(a, b) == IF a <= b THEN a ELSE b

Max(a, b) == IF a >= b THEN a ELSE b

SkillsBoostApplies(j) == Len(j.required_skills) > 10

SemanticBoostApplies(j) ==
    TruthyStr(j.desired_candidate_profile) /\ Len(j.desired_candidate_profile.v) > 200

adjust_for_job_specifics(base_weights, j) ==
    LET boosted == [base_weights EXCEPT
                      !.skills = IF SkillsBoostApplies(j)
                                 THEN Min(WeightScale \div 2, RoundDiv(@ * 115, 100))
                                 ELSE @,
                      !.semantic = IF SemanticBoostApplies(j)
                                   THEN Min(WeightScale \div 2, RoundDiv(@ * 110, 100))
                                   ELSE @]
    IN  Returns([weights |-> Normalize(boosted)])

\* A scoring method call ends: its outcome goes to ret, pc tells how it ended.
EndCall(outcome) ==
    /\ ret' = Some(outcome)
    /\ pc' = IF outcome.raised THEN "raised" ELSE "returned"

callFrame == <<mlVars, job, candidate, now, rule_trace, result, call, first, op, args,
               stage_log, evaluation>>

GetOptimizedWeights ==
    /\ pc = "call"
    /\ op = "get_optimized_weights"
    /\ EndCall(get_optimized_weights(job))
    /\ UNCHANGED callFrame

AdjustForJobSpecifics ==
    /\ pc = "call"
    /\ op = "adjust_for_job_specifics"
    /\ EndCall(adjust_for_job_specifics(args.v.base_weights, job))
    /\ UNCHANGED callFrame

JobTitles ==
    {Titles.LogisticsCoordinator, Titles.SeniorDirector, Titles.JuniorTeamLead, Titles.GraduateTrainee,
     Titles.WarehouseClerk, Titles.SupplyChainManager}

WeightJobs ==
    LET plain == {[ScoringJob EXCEPT !.title = t,
                                     !.min_experience_years = mn,
                                     !.required_skills = SkillList(n),
                                     !.desired_candidate_profile = p] :
                     t \in JobTitles,
                     mn \in {0, 2, 5, 10},
                     n \in {0, MaxSkillCount - 1, MaxSkillCount},
                     p \in {None, Some(ProfileText(MaxProfileLen - 1)),
                            Some(ProfileText(MaxProfileLen))}}
    IN  plain \cup {WithScoringNames(j) : j \in plain}
              \cup {[j EXCEPT !.job_title = Attr(None)] : j \in plain}

InitScoringCall ==
    /\ candidate = BaseCandidate
    /\ now = Midnight(0)
    /\ pc = "call"
    /\ rule_trace = <<>>
    /\ result = None
    /\ call = 1
    /\ first = None
    /\ ret = None
    /\ stage_log = <<>>
    /\ evaluation = None
    /\ NoEmbeddingCalls

InitWeights ==
    /\ job \in WeightJobs
    /\ \/ op = "get_optimized_weights" /\ args = None
       \/ /\ op = "adjust_for_job_specifics"
          /\ \E level \in JobLevels :
                args = Some([base_weights |-> Normalize(WEIGHT_PROFILES[level])])
    /\ InitScoringCall

NextWeights == GetOptimizedWeights \/ AdjustForJobSpecifics

SpecWeights == InitWeights /\ [][NextWeights]_vars

WeightTolerance == WeightScale \div 100

----------------------------------------------------------------------------
(* WeightedScoreAggregator.aggregate                                         *)
(* (core/aggregation/weighted_score_aggregator.py).  section_scores is a     *)
(* function from section names to scores, weights a function from section    *)
(* names to weights in units of 1/WeightScale.                               *)

RECURSIVE SumOver(_, _)
\* sum(f[k] for k in S)
SumOver(S, f) ==
    IF S = {} THEN 0
    ELSE LET k == CHOOSE x \in S : TRUE IN f[k] + SumOver(S \ {k}, f)

\* int(n / d): the fraction is dropped, nothing is rounded.
TruncateDiv(n, d) == n \div d

\* round(n / d) as Python rounds: to the nearest, ties to the even (n >= 0, d > 0).
RoundHalfEven(n, d) ==
    LET q == n \div d
        r == n % d
    IN  IF 2 * r < d THEN q
        ELSE IF 2 * r > d THEN q + 1
        ELSE IF q % 2 = 0 THEN q ELSE q + 1

aggregate(section_scores, weights) ==
    IF DOMAIN section_scores = {} THEN Raises("ValueError")
    ELSE LET active == DOMAIN weights \cap DOMAIN section_scores IN
         IF active = {} THEN Raises("ValueError")
         ELSE LET total_weight == SumOver(active, weights) IN
              IF total_weight = 0 THEN Raises("ZeroDivisionError")
              ELSE LET products == [s \in active |-> section_scores[s] * weights[s]]
                   IN  Returns(
                         [final_score |->
                             RoundHalfEven(SumOver(active, products), total_weight),
                          \* contributions in hundredths: round(contribution, 2)
                          contributions |->
                             [s \in DOMAIN section_scores |->
                                 IF s \in active
                                 THEN RoundHalfEven(100 * products[s], total_weight)
                                 ELSE 0]])

Aggregate ==
    /\ pc = "call"
    /\ op = "aggregate"
    /\ EndCall(aggregate(args.v.section_scores, args.v.weights))
    /\ UNCHANGED callFrame

----------------------------------------------------------------------------
(* ContextualAdjuster (core/scoring/contextual_adjuster.py).  Points and the *)
(* adjusted score are floats with halves (1.5); here they are whole numbers  *)
(* of 1/PointScale.                                                          *)

PointScale == 2

\* _get_default_rules, in the order of the list.
DefaultRules ==
    <<[rule_id |-> "GCC_EXP_BONUS",                points |-> 5 * PointScale,  priority |-> 10],
      [rule_id |-> "GCC_EXP_MAJOR_BONUS",          points |-> 8 * PointScale,  priority |-> 11],
      [rule_id |-> "PERFECT_SKILLS",               points |-> 5 * PointScale,  priority |-> 15],
      [rule_id |-> "CRITICAL_SKILL_GAP",           points |-> -8 * PointScale, priority |-> 20],
      [rule_id |-> "SLIGHT_OVERQUALIFIED_BONUS",   points |-> 2 * PointScale,  priority |-> 5],
      [rule_id |-> "SEVERE_OVERQUALIFIED_PENALTY", points |-> -5 * PointScale, priority |-> 6],
      [rule_id |-> "SALARY_SWEET_SPOT",            points |-> 3 * PointScale,  priority |-> 7],
      [rule_id |-> "SALARY_FLEXIBILITY",           points |-> (3 * PointScale) \div 2, priority |-> 6],
      [rule_id |-> "RECENT_EDUCATION",             points |-> 2 * PointScale,  priority |-> 3],
      [rule_id |-> "JOB_HOPPING",                  points |-> -4 * PointScale, priority |-> 8],
      [rule_id |-> "CAREER_PROGRESSION",           points |-> 3 * PointScale,  priority |-> 4],
      [rule_id |-> "INDUSTRY_CONTINUITY",          points |-> 3 * PointScale,  priority |-> 9]>>

\* The rules in the order of the list, not sorted.
InListOrder(rules) == rules

RECURSIVE SortedByPriority(_)
\* sorted(rules, key=lambda r: r.priority, reverse=True): stable, ties keep list order.
SortedByPriority(rules) ==
    IF rules = <<>> THEN <<>>
    ELSE LET i == CHOOSE i \in DOMAIN rules :
                     \A j \in DOMAIN rules :
                        \/ rules[i].priority > rules[j].priority
                        \/ rules[i].priority = rules[j].priority /\ i <= j
         IN  <<rules[i]>> \o SortedByPriority(SubSeq(rules, 1, i - 1)
                                              \o SubSeq(rules, i + 1, Len(rules)))

\* The clock's day 0 is 31 December of EpochYear.
EpochYear == 2025

YearOf(today) == IF today.day >= 1 THEN EpochYear + 1 ELSE EpochYear

RECURSIVE JoinWithSpace(_)
\* ' '.join(titles)
JoinWithSpace(titles) ==
    IF titles = <<>> THEN <<>>
    ELSE IF Len(titles) = 1 THEN titles[1]
    ELSE titles[1] \o <<" ">> \o JoinWithSpace(Tail(titles))

progression_keywords ==
    <<<<"s","e","n","i","o","r">>,
      <<"l","e","a","d">>,
      <<"p","r","i","n","c","i","p","a","l">>,
      <<"d","i","r","e","c","t","o","r">>,
      <<"m","a","n","a","g","e","r">>,
      <<"h","e","a","d">>>>

\* Truthiness of an Optional number: None and 0 are falsy.
TruthyNum(o) == o.some /\ o.v # 0

\* The salary_position feature: a ratio [num, den], or the exception raised
\* when job.min_salary or job.max_salary is read from an object without it.
SalaryPosition(j, c) ==
    IF ~j.min_salary.attr THEN Raises("AttributeError")
    ELSE IF ~TruthyNum(j.min_salary.v) THEN Returns([num |-> 1, den |-> 2])
    ELSE IF ~j.max_salary.attr THEN Raises("AttributeError")
    ELSE IF TruthyNum(j.max_salary.v) /\ j.max_salary.v.v > j.min_salary.v.v
         THEN Returns([num |-> c.expected_salary - j.min_salary.v.v,
                       den |-> j.max_salary.v.v - j.min_salary.v.v])
         ELSE Returns([num |-> 1, den |-> 2])

\* The years_since_graduation feature; max() of no years raises ValueError.
YearsSinceGraduation(c, today) ==
    IF Len(c.education_details) > 0
    THEN LET years == {c.education_details[i].graduation_year.v :
                          i \in {k \in DOMAIN c.education_details :
                                    TruthyNum(c.education_details[k].graduation_year)}}
         IN  IF years = {} THEN Raises("ValueError")
             ELSE Returns(YearOf(today) - (CHOOSE y \in years : \A z \in years : y >= z))
    ELSE Returns(999)

extract_features(j, c, today) ==
    LET salary_position == SalaryPosition(j, c)
        years_since_graduation == YearsSinceGraduation(c, today)
    IN
    IF salary_position.raised THEN salary_position
    ELSE IF years_since_graduation.raised THEN years_since_graduation
    ELSE Returns(
      [min_gcc_experience_years |->
          IF c.gcc_experience_years.some THEN c.gcc_experience_years.v ELSE 0,
       \* required_skills_match_rate = matched / total, 0 when there are no required skills
       required_skills_match_rate |->
          IF Len(j.required_skills) > 0
          THEN [matched |-> Cardinality({i \in DOMAIN c.skills :
                                             \E k \in DOMAIN j.required_skills :
                                                j.required_skills[k] = c.skills[i]}),
                total |-> Len(j.required_skills)]
          ELSE [matched |-> 0, total |-> 1],
       experience_over_max_years |->
          IF TruthyNum(j.max_experience_years)
          THEN Max(0, c.total_experience_years - j.max_experience_years.v)
          ELSE 0,
       salary_position |-> salary_position.value,
       years_since_graduation |-> years_since_graduation.value,
       jobs_in_recent_years |->
          IF Len(c.employment_history) >= 3
          THEN [jobs |-> Cardinality({i \in DOMAIN c.employment_history :
                                       LET emp == c.employment_history[i]
                                       IN  TruthyNum(emp.duration_months)
                                              /\ emp.duration_months.v < 24}),
                years |-> 2]
          ELSE [jobs |-> 0, years |-> 999],
       has_career_progression |->
          IF Len(c.employment_history) >= 2
          THEN LET titles == SelectSeq(c.employment_history,
                                         LAMBDA emp : Len(emp.job_title) > 0)
                   lowered == [i \in DOMAIN titles |-> Lower(titles[i].job_title)]
               IN  AnyKeywordIn(progression_keywords, JoinWithSpace(lowered))
          ELSE FALSE,
       consecutive_jobs_same_industry |-> 0])

\* _rule_applies with the rule's conditions dict.
rule_applies(rule, features) ==
    LET id == rule.rule_id
        rate == features.required_skills_match_rate
        pos == features.salary_position
    IN
    CASE id = "GCC_EXP_BONUS" -> features.min_gcc_experience_years >= 1
      [] id = "GCC_EXP_MAJOR_BONUS" -> features.min_gcc_experience_years >= 5
      [] id = "PERFECT_SKILLS" -> rate.matched >= rate.total
      [] id = "CRITICAL_SKILL_GAP" -> 10 * rate.matched < 6 * rate.total
      [] id = "SLIGHT_OVERQUALIFIED_BONUS" ->
            1 <= features.experience_over_max_years
               /\ features.experience_over_max_years <= 2
      [] id = "SEVERE_OVERQUALIFIED_PENALTY" -> features.experience_over_max_years >= 5
      [] id = "SALARY_SWEET_SPOT" ->
            45 * pos.den <= 100 * pos.num /\ 100 * pos.num <= 55 * pos.den
      [] id = "SALARY_FLEXIBILITY" -> 100 * pos.num < 45 * pos.den
      [] id = "RECENT_EDUCATION" -> features.years_since_graduation <= 3
      [] id = "JOB_HOPPING" ->
            features.jobs_in_recent_years.jobs >= 3
               /\ features.jobs_in_recent_years.years <= 2
      [] id = "CAREER_PROGRESSION" -> features.has_career_progression
      [] id = "INDUSTRY_CONTINUITY" -> features.consecutive_jobs_same_industry >= 2

RECURSIVE SumPoints(_)
SumPoints(adjustments) ==
    IF adjustments = <<>> THEN 0
    ELSE Head(adjustments).points + SumPoints(Tail(adjustments))

\* The sum handed back as it is.
Unclamped(x) == x

\* max(0, min(100, x))
Clamp(x) == Max(0, Min(100 * PointScale, x))

apply_adjustments(base_score, j, c, today) ==
    LET features == extract_features(j, c, today) IN
    IF features.raised THEN features
    ELSE LET applies(rule) == rule_applies(rule, features.value)
             adjustments_applied == SelectSeq(SortedByPriority(DefaultRules), applies)
             total_adjustment == SumPoints(adjustments_applied)
         IN  Returns([adjusted_score |-> Clamp(base_score * PointScale + total_adjustment),
                      adjustments |-> adjustments_applied])

ApplyAdjustments ==
    /\ pc = "call"
    /\ op = "apply_adjustments"
    /\ EndCall(apply_adjustments(args.v.base_score, job, candidate, now))
    /\ UNCHANGED callFrame

----------------------------------------------------------------------------
(* Calls of the aggregator and of the contextual adjuster.                   *)

\* evaluate as one function of its inputs: TRUE when every rule passes.
PassesGate(j, c, today) ==
    /\ ~HR001Fails(j, c)
    /\ HR002Outcome(c, today) = "pass"
    /\ ~HR003Fails(j, c)
    /\ ~HR004Fails(j, c)
    /\ ~HR005Fails(j, c)
    /\ ~HR006Fails(j, c)
    /\ ~HR007Fails(j, c)
    /\ ~HR008Fails(j, c)

ScoringCandidate ==
    [nationality |-> Str.Indian,
     current_country |-> Str.UAE,
     visa_status |-> Some(Str.WorkVisa),
     visa_expiry |-> None,
     expected_salary |-> 15,
     total_experience_years |-> 3,
     gcc_experience_years |-> None,
     education_level |-> None,
     skills |-> SkillList(2),
     education_details |-> <<>>,
     employment_history |-> <<>>]

Education(year) == [graduation_year |-> year]

Employment(title, months) == [job_title |-> title, duration_months |-> months]

SectionNames == {"skills", "experience", "semantic", "domain"}

\* Section scores as the scorers report them: whole numbers in 0..100.
ScoreLevels == {0, 51, 100}

ScoreDicts ==
    [SectionNames -> ScoreLevels]
       \cup [{"skills", "education"} -> ScoreLevels]
       \cup [{"domain"} -> ScoreLevels]
       \cup [{"education"} -> ScoreLevels]
       \cup [{} -> ScoreLevels]

ProfileWeights == {Normalize(WEIGHT_PROFILES[level]) : level \in JobLevels}

AdjustJobs ==
    LET plain == {[ScoringJob EXCEPT !.max_experience_years = mx,
                                     !.required_skills = rs] :
                     mx \in {None, Some(0), Some(5)},
                     rs \in {<<>>, SkillList(2)}}
    IN  plain
          \cup {WithScoringNames(j) : j \in plain}
          \cup {[WithScoringNames(j) EXCEPT !.min_salary = Attr(None)] : j \in plain}
          \cup {[WithScoringNames(j) EXCEPT !.max_salary = NoAttr] : j \in plain}

AdjustCandidates ==
    {[ScoringCandidate EXCEPT !.gcc_experience_years = ge,
                              !.skills = sk,
                              !.total_experience_years = te,
                              !.expected_salary = es,
                              !.education_details = ed,
                              !.employment_history = eh] :
        ge \in {None, Some(1), Some(5)},
        sk \in {<<>>, <<"python", "sql">>, <<"python", "python">>},
        te \in {3, 7, 10},
        es \in {10, 15, 22},
        ed \in {<<>>,
                <<Education(None)>>,
                <<Education(Some(EpochYear - 3))>>,
                <<Education(None), Education(Some(EpochYear - 10))>>},
        eh \in {<<>>,
                <<Employment(Titles.Clerk, Some(6)), Employment(Titles.Clerk, Some(12)),
                  Employment(Titles.Analyst, Some(23))>>,
                <<Employment(Titles.Analyst, Some(36)), Employment(Titles.SeniorAnalyst, None)>>}}

InitScore ==
    /\ \/ /\ op = "aggregate"
          /\ job = ScoringJob
          /\ candidate = ScoringCandidate
          /\ now = Midnight(0)
          /\ \E sc \in ScoreDicts, w \in ProfileWeights :
                args = Some([section_scores |-> sc, weights |-> w])
       \/ /\ op = "apply_adjustments"
          /\ job \in AdjustJobs
          /\ candidate \in AdjustCandidates
          /\ now \in {Midnight(0), Midnight(1)}
          /\ \E b \in {0, 3, 50, 97, 100} : args = Some([base_score |-> b])
    /\ pc = "call"
    /\ rule_trace = <<>>
    /\ result = None
    /\ call = 1
    /\ first = None
    /\ ret = None
    /\ stage_log = <<>>
    /\ evaluation = None
    /\ NoEmbeddingCalls

NextScore == Aggregate \/ ApplyAdjustments

SpecScore == InitScore /\ [][NextScore]_vars

----------------------------------------------------------------------------
(* ConfidenceCalculator (core/scoring/confidence_calculator.py).             *)
(* total_score counts in units of 1/PointScale, signal agreement in units of *)
(* 1/AgreementScale and the confidence score in units of 1/ConfidenceScale,  *)
(* the common denominator of its three weighted terms.                       *)

CRITICAL_CANDIDATE_FIELDS ==
    <<"total_experience_years", "skills", "expected_salary", "nationality",
      "current_country">>

CRITICAL_JOB_FIELDS ==
    <<"required_skills", "min_experience_years", "min_salary", "max_salary">>

DECISION_BOUNDARIES == {85, 60, 40}

\* value is not None and value != [] and value != 0, for getattr(candidate, field, None)
CandidateFieldPopulated(c, field) ==
    CASE field = "total_experience_years" -> c.total_experience_years # 0
      [] field = "skills" -> c.skills # <<>>
      [] field = "expected_salary" -> c.expected_salary # 0
      [] field = "nationality" -> TRUE      \* a str, even an empty one
      [] field = "current_country" -> TRUE

\* the same test for getattr(job, field, None)
JobFieldPopulated(j, field) ==
    CASE field = "required_skills" -> j.required_skills # <<>>
      [] field = "min_experience_years" -> j.min_experience_years # 0
      [] field = "min_salary" -> TruthyNum(GetAttrOrNone(j.min_salary))
      [] field = "max_salary" -> TruthyNum(GetAttrOrNone(j.max_salary))

PopulatedFields(c, j) ==
    {<<"candidate", CRITICAL_CANDIDATE_FIELDS[i]>> :
        i \in {k \in DOMAIN CRITICAL_CANDIDATE_FIELDS :
                  CandidateFieldPopulated(c, CRITICAL_CANDIDATE_FIELDS[k])}}
      \cup
    {<<"job", CRITICAL_JOB_FIELDS[i]>> :
        i \in {k \in DOMAIN CRITICAL_JOB_FIELDS :
                  JobFieldPopulated(j, CRITICAL_JOB_FIELDS[k])}}

total_critical == Len(CRITICAL_CANDIDATE_FIELDS) + Len(CRITICAL_JOB_FIELDS)

\* The count of the fields that are missing, in place of the populated ones.
missing_critical(c, j) == total_critical - Cardinality(PopulatedFields(c, j))

populated_critical(c, j) == Cardinality(PopulatedFields(c, j))

\* critical_missing, in the order the fields are checked
critical_missing(c, j) ==
    SelectSeq([i \in DOMAIN CRITICAL_CANDIDATE_FIELDS |->
                  <<"candidate", CRITICAL_CANDIDATE_FIELDS[i]>>]
                \o [i \in DOMAIN CRITICAL_JOB_FIELDS |->
                       <<"job", CRITICAL_JOB_FIELDS[i]>>],
              LAMBDA f : f \notin PopulatedFields(c, j))

AgreementScale == 1000

RECURSIVE ISqrtBetween(_, _, _)
\* variance ** 0.5 to the unit below: the largest r in lo..hi with r * r <= x
ISqrtBetween(x, lo, hi) ==
    IF lo = hi THEN lo
    ELSE LET mid == (lo + hi + 1) \div 2
         IN  IF mid * mid <= x THEN ISqrtBetween(x, mid, hi)
             ELSE ISqrtBetween(x, lo, mid - 1)

\* _calculate_signal_agreement: max(0, 1 - (std_dev / mean) / 0.5), at most 1.
\* std_dev / mean = sqrt(n * sum(s^2) - sum(s)^2) / sum(s).
signal_agreement(section_scores) ==
    LET keys == DOMAIN section_scores
        n == Cardinality(keys)
        total == SumOver(keys, section_scores)
        squares == SumOver(keys, [k \in keys |-> section_scores[k] * section_scores[k]])
    IN  IF n < 2 THEN AgreementScale \div 2
        ELSE IF total = 0 THEN AgreementScale
        ELSE Min(AgreementScale,
                 Max(0, AgreementScale
                          - (2 * (AgreementScale \div 10)
                               * ISqrtBetween(100 * (n * squares - total * total), 0, 4096))
                            \div total))

\* _assess_boundary_distance: min(1.0, min_distance / 10.0), in units of
\* 1/(10 * PointScale)
boundary_distance(total_score) ==
    LET distances == {Max(total_score - b * PointScale, b * PointScale - total_score) :
                        b \in DECISION_BOUNDARIES}
    IN  Min(10 * PointScale, CHOOSE d \in distances : \A e \in distances : d <= e)

ConfidenceScale == 900000

\* _compute_overall_confidence:
\* completeness * 0.40 + signal_agreement * 0.35 + boundary_confidence * 0.25
overall_confidence(populated, agreement, boundary) ==
    Min(ConfidenceScale,
        Max(0, (40 * populated * (ConfidenceScale \div 100)) \div total_critical
               + (35 * agreement * (ConfidenceScale \div 100)) \div AgreementScale
               + (25 * boundary * (ConfidenceScale \div 100)) \div (10 * PointScale)))

score_to_level(confidence_score) ==
    IF 100 * confidence_score >= 85 * ConfidenceScale THEN "very_high"
    ELSE IF 100 * confidence_score >= 70 * ConfidenceScale THEN "high"
    ELSE IF 100 * confidence_score >= 50 * ConfidenceScale THEN "medium"
    ELSE "low"

\* _identify_uncertainty_factors, given that job.max_salary is a number
uncertainty_factors(populated, agreement, boundary, c, j) ==
    LET factors ==
      (IF 10 * populated < 8 * total_critical THEN <<"incomplete_data">> ELSE <<>>)
      \o [i \in 1..Min(3, Len(critical_missing(c, j))) |-> "missing_field"]
      \o (IF 10 * agreement < 6 * AgreementScale THEN <<"conflicting_signals">> ELSE <<>>)
      \o (IF boundary < 3 * PointScale THEN <<"score_near_decision_boundary">> ELSE <<>>)
      \o (IF c.total_experience_years = 0 THEN <<"no_work_experience">> ELSE <<>>)
      \o (IF c.skills = <<>> THEN <<"no_skills_listed">> ELSE <<>>)
      \o (IF TruthyNum(j.max_experience_years)
             /\ 2 * c.total_experience_years > 3 * j.max_experience_years.v
          THEN <<"significant_overqualification">> ELSE <<>>)
      \o (IF 10 * c.expected_salary > 12 * j.max_salary.v.v
          THEN <<"salary_expectation_very_high">> ELSE <<>>)
    IN  SubSeq(factors, 1, Min(5, Len(factors)))

\* calculate_confidence: the read of job.max_salary in step 4 raises
\* AttributeError when the object has no such attribute and TypeError
\* (None * 1.2) when it is None.
calculate_confidence(total_score, section_scores, c, j) ==
    LET populated == populated_critical(c, j)
        agreement == signal_agreement(section_scores)
        boundary == boundary_distance(total_score)
    IN  IF ~j.max_salary.attr THEN Raises("AttributeError")
        ELSE IF ~j.max_salary.v.some THEN Raises("TypeError")
        ELSE LET confidence_score == overall_confidence(populated, agreement, boundary)
             IN  Returns([overall_confidence |-> score_to_level(confidence_score),
                          confidence_score |-> confidence_score,
                          uncertainty_factors |->
                             uncertainty_factors(populated, agreement, boundary, c, j),
                          signal_agreement |-> agreement,
                          data_quality_score |->
                             [populated |-> populated, total |-> total_critical]])

CalculateConfidence ==
    /\ pc = "call"
    /\ op = "calculate_confidence"
    /\ EndCall(calculate_confidence(args.v.total_score, args.v.section_scores,
                                    candidate, job))
    /\ UNCHANGED callFrame

----------------------------------------------------------------------------
(* Two calls of calculate_confidence with the same scores, the second on     *)
(* inputs in which some populated critical fields have been emptied.         *)

\* The critical fields a Job or Candidate can hold an empty value in
\* (nationality and current_country are required strings).
BlankableFields ==
    {<<"candidate", "total_experience_years">>, <<"candidate", "skills">>,
     <<"candidate", "expected_salary">>, <<"job", "required_skills">>,
     <<"job", "min_experience_years">>, <<"job", "min_salary">>,
     <<"job", "max_salary">>}

BlankCandidate(c, B) ==
    [c EXCEPT !.total_experience_years =
                  IF <<"candidate", "total_experience_years">> \in B THEN 0 ELSE @,
              !.skills = IF <<"candidate", "skills">> \in B THEN <<>> ELSE @,
              !.expected_salary =
                  IF <<"candidate", "expected_salary">> \in B THEN 0 ELSE @]

BlankJob(j, B) ==
    [j EXCEPT !.required_skills = IF <<"job", "required_skills">> \in B THEN <<>> ELSE @,
              !.min_experience_years =
                  IF <<"job", "min_experience_years">> \in B THEN 0 ELSE @,
              !.min_salary = IF <<"job", "min_salary">> \in B /\ @.attr
                             THEN Attr(None) ELSE @,
              !.max_salary = IF <<"job", "max_salary">> \in B /\ @.attr
                             THEN Attr(Some(0)) ELSE @]

RecallWithFewerFields ==
    /\ op = "calculate_confidence"
    /\ pc \in {"returned", "raised"}
    /\ call = 1
    /\ \E B \in SUBSET (BlankableFields \cap PopulatedFields(candidate, job)) :
          /\ candidate' = BlankCandidate(candidate, B)
          /\ job' = BlankJob(job, B)
    /\ first' = Some([outcome |-> ret.v, job |-> job, candidate |-> candidate])
    /\ call' = 2
    /\ pc' = "call"
    /\ ret' = None
    /\ UNCHANGED <<mlVars, now, rule_trace, result, op, args, stage_log, evaluation>>

ConfidenceJobs ==
    LET plain == {[ScoringJob EXCEPT !.required_skills = rs,
                                     !.min_experience_years = mn] :
                     rs \in {<<>>, SkillList(2)}, mn \in {0, 3}}
    IN  plain
          \cup {WithScoringNames(j) : j \in plain}
          \cup {[WithScoringNames(j) EXCEPT !.max_salary = Attr(None)] : j \in plain}

ConfidenceCandidates ==
    {[ScoringCandidate EXCEPT !.total_experience_years = te, !.skills = sk] :
        te \in {0, 3, 9}, sk \in {<<>>, SkillList(2)}}

\* total_score in units of 1/PointScale: on, next to and far from the boundaries
TotalScores == {0, 78, 80, 119, 145, 170, 200}

ConfidenceSectionScores ==
    {[s \in {} |-> 0],
     [s \in {"skills"} |-> 80],
     [s \in {"skills", "experience", "semantic"} |-> 0],
     [skills |-> 95, experience |-> 90, semantic |-> 92],
     [skills |-> 100, experience |-> 40, semantic |-> 70, domain |-> 60],
     [skills |-> 100, experience |-> 0]}

InitConfidence ==
    /\ op = "calculate_confidence"
    /\ job \in ConfidenceJobs
    /\ candidate \in ConfidenceCandidates
    /\ \E t \in TotalScores, sc \in ConfidenceSectionScores :
          args = Some([total_score |-> t, section_scores |-> sc])
    /\ now = Midnight(0)
    /\ pc = "call"
    /\ rule_trace = <<>>
    /\ result = None
    /\ call = 1
    /\ first = None
    /\ ret = None
    /\ stage_log = <<>>
    /\ evaluation = None
    /\ NoEmbeddingCalls

NextConfidence == CalculateConfidence \/ RecallWithFewerFields

SpecConfidence == InitConfidence /\ [][NextConfidence]_vars

BothCallsReturned ==
    /\ op = "calculate_confidence"
    /\ call = 2
    /\ pc = "returned"
    /\ first.some
    /\ ~first.v.outcome.raised

----------------------------------------------------------------------------
(* C11: evaluate never raises.  For every job and candidate, a visa_expiry   *)
(* that is absent, unparseable or an ISO timestamp with a timezone            *)
(* designator included, the call ends by returning a HardRejectionResult;     *)
(* an absent or unparseable expiry passes HR-002 and a parseable one fails    *)
(* HR-002 exactly when it is fewer than 90 days away.                         *)
C11_GateNeverRaises ==
    /\ pc # "raised"
    /\ TraceHas(PassedTokens[2]) =>
          (ParseDate(candidate.visa_expiry).some =>
              DaysUntil(ParseDate(candidate.visa_expiry).v, now)
                  >= VISA_EXPIRY_WARNING_DAYS)
    /\ TraceHas(FailedTokens[2]) =>
          /\ ParseDate(candidate.visa_expiry).some
          /\ DaysUntil(ParseDate(candidate.visa_expiry).v, now)
                  < VISA_EXPIRY_WARNING_DAYS

----------------------------------------------------------------------------
(* C12: aggregate raises in exactly two cases, section_scores empty and no   *)
(* key of weights a key of section_scores, each time with its ValueError and  *)
(* no result; in every other case it returns.                                 *)
C12_AggregateFailsInTwoCases ==
    (op = "aggregate" /\ pc \in {"returned", "raised"}) =>
        LET section_scores == args.v.section_scores
            weights == args.v.weights
            contract_broken ==
                \/ DOMAIN section_scores = {}
                \/ DOMAIN weights \cap DOMAIN section_scores = {}
        IN  /\ ret.v.raised <=> contract_broken
            /\ ret.v.raised => ret.v.exc = "ValueError"

----------------------------------------------------------------------------
(* C13: aggregate keeps the weights of the sections present, renormalises    *)
(* them to sum to 1 and returns final_score = round(sum over all sections     *)
(* present of score x normalised weight), a section without a weight          *)
(* contributing 0; contributions has one entry per section of section_scores, *)
(* the section's score x normalised weight rounded to 2 decimals.  Rounded    *)
(* means within half a unit of the exact value.                               *)
C13_AggregateWeightedSum ==
    (op = "aggregate" /\ pc = "returned") =>
        LET section_scores == args.v.section_scores
            weights == args.v.weights
            kept == DOMAIN weights \cap DOMAIN section_scores
            total == SumOver(kept, weights)
            \* score x weight, the normalised weight being weight / total
            part == [s \in DOMAIN section_scores |->
                        IF s \in kept THEN section_scores[s] * weights[s] ELSE 0]
            exact == SumOver(DOMAIN section_scores, part)
            Dist(a, b) == IF a >= b THEN a - b ELSE b - a
            r == ret.v.value
        IN  /\ total > 0
            /\ 2 * Dist(r.final_score * total, exact) <= total
            /\ DOMAIN r.contributions = DOMAIN section_scores
            /\ \A s \in DOMAIN section_scores :
                  /\ 2 * Dist(r.contributions[s] * total, 100 * part[s]) <= total
                  /\ s \notin DOMAIN weights => r.contributions[s] = 0

\* A section without a weight beside a weighted one, and weights left out
\* because their section is absent.
C13_Witness ==
    /\ op = "aggregate"
    /\ pc = "returned"
    /\ DOMAIN args.v.section_scores \ DOMAIN args.v.weights # {}
    /\ DOMAIN args.v.weights \ DOMAIN args.v.section_scores # {}
    /\ ret.v.value.final_score > 0
    /\ ret.v.value.final_score < 100

----------------------------------------------------------------------------
----------------------------------------------------------------------------
(* C15: the GCC-experience bonus of the adjuster is +5 points in total for   *)
(* GCC experience of at least 1 and below 5 years, +8 points in total for 5   *)
(* years or more, and 0 below 1 year or when absent.                          *)
C15_GccBonusTotal ==
    (op = "apply_adjustments" /\ pc = "returned") =>
        LET gcc == IF candidate.gcc_experience_years.some
                   THEN candidate.gcc_experience_years.v ELSE 0
            gcc_records == SelectSeq(ret.v.value.adjustments,
                              LAMBDA a : a.rule_id \in {"GCC_EXP_BONUS",
                                                        "GCC_EXP_MAJOR_BONUS"})
        IN  SumPoints(gcc_records) =
                IF gcc >= 5 THEN 8 * PointScale
                ELSE IF gcc >= 1 THEN 5 * PointScale
                ELSE 0

----------------------------------------------------------------------------
(* The GCC veteran example (tests/test_phase4_hybrid_scoring.py, gcc_job and *)
(* gcc_veteran_candidate): salaries in thousands.  The gate and the adjuster  *)
(* are each called on the pair; skills, education details and employment      *)
(* history range over the optional values, the base score over 0..100.        *)

ExampleJobs ==
    LET gcc_job == [ScoringJob EXCEPT !.title = Titles.SupplyChainManager,
                                      !.min_experience_years = 5,
                                      !.max_experience_years = Some(10),
                                      !.salary_min = 100,
                                      !.salary_max = 150,
                                      !.require_gcc_experience = TRUE]
    IN  {gcc_job, WithScoringNames(gcc_job)}

ExampleCandidates ==
    {c \in AdjustCandidates :
        /\ c.total_experience_years = 3
        /\ c.expected_salary = 15
        /\ c.gcc_experience_years = None}

gcc_veteran_candidate(c) ==
    [c EXCEPT !.total_experience_years = 8,
              !.gcc_experience_years = Some(8),
              !.expected_salary = 145]

InitExample ==
    /\ job \in ExampleJobs
    /\ \E c \in ExampleCandidates : candidate = gcc_veteran_candidate(c)
    /\ now = Midnight(0)
    /\ \/ InitCall
       \/ /\ op = "apply_adjustments"
          /\ \E b \in 0..100 : args = Some([base_score |-> b])
          /\ pc = "call"
          /\ rule_trace = <<>>
          /\ result = None
          /\ call = 1
          /\ first = None
          /\ ret = None
          /\ stage_log = <<>>
          /\ evaluation = None
          /\ NoEmbeddingCalls

NextExample == GateStep \/ ApplyAdjustments

SpecExample == InitExample /\ [][NextExample]_vars

(* C16: for the example pair the gate passes, the adjustments include        *)
(* GCC_EXP_MAJOR_BONUS and the adjusted score is strictly greater than the    *)
(* base score, for every base score in 0..100 and every value of skills,      *)
(* employment history and education details.                                  *)
C16_GccVeteranGains ==
    /\ (op = "gate" /\ Finished) => (Returned /\ result.v.is_eligible)
    /\ (op = "apply_adjustments" /\ pc \in {"returned", "raised"}) =>
          /\ pc = "returned"
          /\ \E k \in DOMAIN ret.v.value.adjustments :
                ret.v.value.adjustments[k].rule_id = "GCC_EXP_MAJOR_BONUS"
          /\ ret.v.value.adjusted_score > args.v.base_score * PointScale

----------------------------------------------------------------------------
(* C17: missing optional candidate data is never an error in the contextual  *)
(* adjuster.  For every job and candidate, a candidate without                *)
(* education_details, with education_details entries that all lack            *)
(* graduation_year, without employment_history or with employment entries     *)
(* lacking duration_months included, apply_adjustments returns its pair, and  *)
(* the rule that depends on the missing datum does not fire.                  *)
C17_MissingDataIsNoError ==
    (op = "apply_adjustments" /\ pc \in {"returned", "raised"}) =>
        LET Fired(id) == \E k \in DOMAIN ret.v.value.adjustments :
                             ret.v.value.adjustments[k].rule_id = id
            no_graduation_year ==
                \A i \in DOMAIN candidate.education_details :
                    ~candidate.education_details[i].graduation_year.some
            no_duration ==
                \A i \in DOMAIN candidate.employment_history :
                    ~candidate.employment_history[i].duration_months.some
        IN  /\ pc = "returned"
            /\ no_graduation_year => ~Fired("RECENT_EDUCATION")
            /\ no_duration => ~Fired("JOB_HOPPING")
            /\ candidate.employment_history = <<>> => ~Fired("CAREER_PROGRESSION")

----------------------------------------------------------------------------
(* EmbeddingModel (ml/embedding_model.py) and SemanticSimilarityScorer       *)
(* (ml/semantic_similarity.py).  A vector is kept as a tuple of whole         *)
(* numbers giving its direction: the float vector is that tuple divided by    *)
(* its norm, or all zeros when the tuple is.  The vectors have EmbeddingDim   *)
(* components where the code has 384.                                         *)

EmbeddingDim == 2

NumThreads == 2

Texts ==
    [Empty |-> <<>>,
     Blank |-> <<" ", "\n", " ">>,
     SapHr |-> <<"S","A","P"," "," ","h","r">>,
     Hr |-> <<"h","r">>,
     SqlPadded |-> <<" ","s","q","l","\n">>,
     ErpSapSap |-> <<"e","r","p","\t","s","a","p"," ","s","a","p">>]

RECURSIVE Split(_)
\* str.split(): the runs of characters between white space
Split(s) ==
    LET r == LStrip(s) IN
    IF r = <<>> THEN <<>>
    ELSE LET stops == {i \in DOMAIN r : r[i] \in Whitespace} \cup {Len(r) + 1}
             n == CHOOSE i \in stops : \A j \in stops : i <= j
         IN  <<SubSeq(r, 1, n - 1)>> \o Split(SubSeq(r, n, Len(r)))

\* int.from_bytes(hashlib.sha256(tok).digest()[:4], "little"): SHA-256 is kept
\* as a fixed function of the token's characters, here a weighted sum of
\* their places in the alphabet.
TokenDigest(tok) ==
    SumOver(DOMAIN tok,
            [i \in DOMAIN tok |->
                i * (IF \E k \in DOMAIN LowerLetters : LowerLetters[k] = tok[i]
                     THEN CHOOSE k \in DOMAIN LowerLetters : LowerLetters[k] = tok[i]
                     ELSE 0)])

\* _fallback_encode: per text, the count of tokens hashed to each index (the
\* division by the norm is in the representation).
fallback_encode(texts) ==
    [n \in DOMAIN texts |->
        LET tokens == Split(Lower(texts[n])) IN
        [k \in 1..EmbeddingDim |->
            Cardinality({i \in DOMAIN tokens :
                            TokenDigest(tokens[i]) % EmbeddingDim = k - 1})]]

\* What model.encode(texts, normalize_embeddings=True) may hand back per text.
ProviderVectors == [1..EmbeddingDim -> {-1, 0, 1}]

Dot(a, b) == SumOver(DOMAIN a, [k \in DOMAIN a |-> a[k] * b[k]])

\* x * sqrt(m) <= y, for whole numbers x, y and m >= 0
TimesRootAtMost(x, m, y) ==
    IF x <= 0 /\ y >= 0 THEN TRUE
    ELSE IF x > 0 /\ y < 0 THEN FALSE
    ELSE IF x > 0 THEN x * x * m <= y * y
    ELSE x * x * m >= y * y

\* int(round(max(0.0, min(1.0, (sim + 1.0) / 2.0)) * 100)) with
\* sim = _cosine_similarity(a, b): dot / (norm * norm), 0.0 when that is not
\* positive.  round() takes an exact half to the even number.
similarity_score(a, b) ==
    LET m == Dot(a, a) * Dot(b, b)
        d == IF m > 0 THEN Dot(a, b) ELSE 0
        \* s - 1/2 <= 50 + 50 * d / sqrt(m) <= s + 1/2
        Near(s) == /\ TimesRootAtMost(2 * (s - 50) - 1, m, 100 * d)
                   /\ TimesRootAtMost(-(2 * (s - 50) + 1), m, -(100 * d))
        near == {s \in 0..100 : Near(s)}
    IN  IF m = 0 THEN 50
        ELSE IF \E s \in near : s % 2 = 0 /\ Cardinality(near) > 1
             THEN CHOOSE s \in near : s % 2 = 0
             ELSE CHOOSE s \in near : TRUE

----------------------------------------------------------------------------
(* The threads.  thread[t] is one thread's call: entry is the method it      *)
(* called ("load", "encode" or "score"), pc its position, texts and vectors   *)
(* the locals of encode and score, ret how the call ended.  mlFrame is what   *)
(* the code of ml/ never touches.                                             *)

mlFrame == <<job, candidate, now, pc, rule_trace, result, call, first,
             op, args, ret, stage_log, evaluation>>

At(t, label) == t \in DOMAIN thread /\ thread[t].pc = label

Goto(t, label) == thread' = [thread EXCEPT ![t].pc = label]

\* A call of the entry method ends: with a value, or with an exception.
Return(t, outcome) == thread' = [thread EXCEPT ![t].pc = "done", ![t].ret = Some(outcome)]

\* An exception inside load or model.encode: encode's try block catches it
\* (except Exception); a direct caller of load gets it.
Throw(t, e) ==
    IF thread[t].entry = "load" THEN Return(t, Raises(e))
    ELSE thread' = [thread EXCEPT ![t].pc = "except", ![t].caught = TRUE]

\* load, line 28: SentenceTransformer is None when the import failed.
LoadCheckAvailable(t) ==
    /\ At(t, "load")
    /\ IF sentence_transformers.available
       THEN Goto(t, "outer_check")
       ELSE Throw(t, "RuntimeError")
    /\ UNCHANGED <<embedding_model, sentence_transformers, mlFrame>>

\* load, line 33: the check outside the lock.
LoadOuterCheck(t) ==
    /\ At(t, "outer_check")
    /\ IF embedding_model.model = None THEN Goto(t, "acquire") ELSE Goto(t, "return_model")
    /\ UNCHANGED <<embedding_model, sentence_transformers, mlFrame>>

\* load, line 34: with EmbeddingModel._lock blocks until the lock is free.
LoadAcquire(t) ==
    /\ At(t, "acquire")
    /\ embedding_model.lock = None
    /\ embedding_model' = [embedding_model EXCEPT !.lock = Some(t)]
    /\ Goto(t, "inner_check")
    /\ UNCHANGED <<sentence_transformers, mlFrame>>

\* The lock taken and the model constructed whatever _model holds.
LoadWithoutRecheck(t) ==
    /\ At(t, "inner_check")
    /\ Goto(t, "construct")
    /\ UNCHANGED <<embedding_model, sentence_transformers, mlFrame>>

\* load, line 35: the check under the lock.
LoadInnerCheck(t) ==
    /\ At(t, "inner_check")
    /\ IF embedding_model.model = None THEN Goto(t, "construct") ELSE Goto(t, "release")
    /\ UNCHANGED <<embedding_model, sentence_transformers, mlFrame>>

\* load, line 36: SentenceTransformer(resolved_name) returns a new instance,
\* which is stored in _model, or raises, and the with block lets the lock go
\* on the way out.
LoadConstruct(t) ==
    /\ At(t, "construct")
    /\ \/ LET instance == sentence_transformers.instances + 1 IN
          /\ sentence_transformers' = [sentence_transformers EXCEPT !.instances = instance]
          /\ embedding_model' = [embedding_model EXCEPT !.model = Some(instance)]
          /\ Goto(t, "release")
       \/ /\ embedding_model' = [embedding_model EXCEPT !.lock = None]
          /\ Throw(t, "OSError")
          /\ UNCHANGED sentence_transformers
    /\ UNCHANGED mlFrame

\* load, end of the with block.
LoadRelease(t) ==
    /\ At(t, "release")
    /\ embedding_model' = [embedding_model EXCEPT !.lock = None]
    /\ Goto(t, "return_model")
    /\ UNCHANGED <<sentence_transformers, mlFrame>>

\* load, line 38: return EmbeddingModel._model.
LoadReturn(t) ==
    /\ At(t, "return_model")
    /\ IF thread[t].entry = "load"
       THEN Return(t, Returns(embedding_model.model))
       ELSE thread' = [thread EXCEPT ![t].pc = "model_encode",
                                     ![t].model = embedding_model.model]
    /\ UNCHANGED <<embedding_model, sentence_transformers, mlFrame>>

Load(t) ==
    \/ LoadCheckAvailable(t) \/ LoadOuterCheck(t) \/ LoadAcquire(t)
    \/ LoadInnerCheck(t) \/ LoadConstruct(t) \/ LoadRelease(t) \/ LoadReturn(t)


\* encode hands back its vectors: to its caller, or to score, which called it.
EncodeReturn(t, vectors) ==
    IF thread[t].entry = "encode" THEN Return(t, Returns(vectors))
    ELSE thread' = [thread EXCEPT ![t].pc = "cosine", ![t].vectors = vectors]

\* encode, line 60: model.encode(texts, normalize_embeddings=True).tolist()
\* gives the provider's vectors or raises.
ModelEncode(t) ==
    /\ At(t, "model_encode")
    /\ \/ EncodeReturn(t, sentence_transformers.output)
       \/ Throw(t, "RuntimeError")
    /\ UNCHANGED <<embedding_model, sentence_transformers, mlFrame>>

\* The except clause lets the exception through to the caller of encode.
Reraise(t) ==
    /\ At(t, "except")
    /\ Return(t, Raises("Exception"))
    /\ UNCHANGED <<embedding_model, sentence_transformers, mlFrame>>

\* encode, lines 61-62: except Exception: return _fallback_encode(texts)
FallbackEncode(t) ==
    /\ At(t, "except")
    /\ EncodeReturn(t, fallback_encode(thread[t].texts))
    /\ UNCHANGED <<embedding_model, sentence_transformers, mlFrame>>

Encode(t) == ModelEncode(t) \/ FallbackEncode(t)

\* score, lines 31-35: the two texts as they are compared.
CombinedTexts(job_text, candidate_text, job_profile_text) ==
    <<IF TruthyStr(job_profile_text)
      THEN Strip(Strip(job_text) \o <<"\n">> \o job_profile_text.v)
      ELSE Strip(job_text),
      Strip(candidate_text)>>

\* score, lines 31-43: empty text on either side ends the call with score 0;
\* otherwise EmbeddingModel.encode is called with the two texts.
ScoreStart(t) ==
    /\ At(t, "score")
    /\ LET combined == CombinedTexts(thread[t].job_text, thread[t].candidate_text,
                                     thread[t].job_profile_text)
       IN  IF combined[1] = <<>> \/ combined[2] = <<>>
           THEN Return(t, Returns([score |-> 0, explanation |-> "insufficient text"]))
           ELSE thread' = [thread EXCEPT ![t].pc = "load", ![t].texts = combined]
    /\ UNCHANGED <<embedding_model, sentence_transformers, mlFrame>>

\* score, lines 44-52: cosine similarity of the two vectors, as a score.
ScoreFinish(t) ==
    /\ At(t, "cosine")
    /\ Return(t, Returns([score |-> similarity_score(thread[t].vectors[1],
                                                     thread[t].vectors[2]),
                          explanation |-> "computed"]))
    /\ UNCHANGED <<embedding_model, sentence_transformers, mlFrame>>

\* A thread whose first call has ended calls load or encode once more.
CallAgain(t) ==
    /\ At(t, "done")
    /\ thread[t].calls = 1
    /\ \E entry \in {"load", "encode"} :
          thread' = [thread EXCEPT ![t] = [@ EXCEPT !.entry = entry,
                                                    !.pc = "load",
                                                    !.calls = @ + 1,
                                                    !.model = None,
                                                    !.caught = FALSE,
                                                    !.ret = None]]
    /\ UNCHANGED <<embedding_model, sentence_transformers, mlFrame>>

\* A thread about to make its first call.
NewThread(entry, job_text, candidate_text, job_profile_text, texts) ==
    [entry |-> entry,
     pc |-> IF entry = "score" THEN "score" ELSE "load",
     calls |-> 1,
     job_text |-> job_text,
     candidate_text |-> candidate_text,
     job_profile_text |-> job_profile_text,
     texts |-> texts,
     model |-> None,
     vectors |-> <<>>,
     caught |-> FALSE,
     ret |-> None]

\* What the code of ml/ never reads: the variables of the other calls, idle.
NoOtherCalls ==
    /\ job = BaseJob
    /\ candidate = BaseCandidate
    /\ now = Midnight(0)
    /\ pc = "idle"
    /\ rule_trace = <<>>
    /\ result = None
    /\ call = 1
    /\ first = None
    /\ op = "ml"
    /\ args = None
    /\ ret = None
    /\ stage_log = <<>>
    /\ evaluation = None

\* Threads calling load and encode at the same time, from the state right
\* after the import or with the model already loaded.
InitEmbedding ==
    /\ NoOtherCalls
    /\ \E loaded \in BOOLEAN, available \in BOOLEAN :
          /\ loaded => available
          /\ embedding_model = [model |-> IF loaded THEN Some(1) ELSE None, lock |-> None]
          /\ sentence_transformers =
                [available |-> available,
                 instances |-> IF loaded THEN 1 ELSE 0,
                 output |-> <<[k \in 1..EmbeddingDim |-> 1], [k \in 1..EmbeddingDim |-> -1]>>]
    /\ thread \in [1..NumThreads ->
                      {NewThread(entry, <<>>, <<>>, None,
                                 IF entry = "encode" THEN <<Texts.SapHr, Texts.Hr>> ELSE <<>>) :
                          entry \in {"load", "encode"}}]

NextEmbedding == \E t \in 1..NumThreads : Load(t) \/ Encode(t) \/ CallAgain(t)

SpecEmbedding == InitEmbedding /\ [][NextEmbedding]_vars


\* One thread calling score, the provider in each of its conditions: import
\* failed, not yet loaded, loaded; its vectors for the two texts any pair.
InitSemantic ==
    /\ NoOtherCalls
    /\ \E loaded \in BOOLEAN, available \in BOOLEAN :
          /\ loaded => available
          /\ embedding_model = [model |-> IF loaded THEN Some(1) ELSE None, lock |-> None]
          /\ \E a \in ProviderVectors, b \in ProviderVectors :
                sentence_transformers = [available |-> available,
                                         instances |-> IF loaded THEN 1 ELSE 0,
                                         output |-> <<a, b>>]
    /\ \E job_text \in {Texts.Empty, Texts.Blank, Texts.SapHr},
          candidate_text \in {Texts.Blank, Texts.SqlPadded, Texts.ErpSapSap},
          job_profile_text \in {None, Some(Texts.Blank), Some(Texts.Hr)} :
          thread = <<NewThread("score", job_text, candidate_text, job_profile_text, <<>>)>>

NextSemantic ==
    \E t \in 1..NumThreads : Load(t) \/ Encode(t) \/ ScoreStart(t) \/ ScoreFinish(t)

SpecSemantic == InitSemantic /\ [][NextSemantic]_vars

(* C18: a failure of the embedding provider never aborts a call.  Whenever   *)
(* loading the model or encoding with it fails, encode hands back the         *)
(* hash-based fallback vectors of its texts instead of raising; score always  *)
(* returns a whole score in 0..100, and returns 0 with the insufficient-text  *)
(* explanation, the provider not called, exactly when the text of either side *)
(* is empty or white space.                                                   *)
C18_ProviderFailureDegrades ==
    \A t \in DOMAIN thread :
        At(t, "done") =>
            LET th == thread[t]
                AllWhite(s) == \A i \in DOMAIN s : s[i] \in Whitespace
                no_text ==
                    \/ AllWhite(th.candidate_text)
                    \/ /\ AllWhite(th.job_text)
                       /\ th.job_profile_text.some => AllWhite(th.job_profile_text.v)
            IN  /\ ~th.ret.v.raised
                /\ th.ret.v.value.score \in 0..100
                /\ th.caught => th.vectors = fallback_encode(th.texts)
                /\ no_text <=> th.ret.v.value.explanation = "insufficient text"
                /\ no_text => /\ th.ret.v.value.score = 0
                              /\ th.texts = <<>>
                              /\ th.vectors = <<>>
                              /\ ~th.caught
                              /\ embedding_model.lock = None
                              /\ embedding_model.model.some
                                    <=> sentence_transformers.instances = 1

\* The model could not be loaded or could not encode, and score compared the
\* fallback vectors of two texts that share some of their tokens' indexes.
C18_Witness ==
    \E t \in DOMAIN thread :
        /\ At(t, "done")
        /\ thread[t].entry = "score"
        /\ thread[t].caught
        /\ thread[t].ret.v.value.explanation = "computed"
        /\ thread[t].ret.v.value.score > 50
        /\ thread[t].ret.v.value.score < 100


(* C19: the shared embedding model is initialised once.  Under every         *)
(* interleaving of threads calling load, directly or through encode, the      *)
(* constructor completes successfully at most once, every caller that load    *)
(* returns to receives that one instance, and once _model is set no later     *)
(* call writes it again.                                                      *)
C19_ModelInitialisedOnce ==
    /\ [](/\ sentence_transformers.instances <= 1
          /\ \A t \in DOMAIN thread :
                /\ (At(t, "done") /\ thread[t].entry = "load" /\ ~thread[t].ret.v.raised) =>
                      /\ thread[t].ret.v.value.some
                      /\ thread[t].ret.v.value = embedding_model.model
                /\ At(t, "model_encode") => /\ thread[t].model.some
                                            /\ thread[t].model = embedding_model.model)
    /\ [][embedding_model.model.some => embedding_model'.model = embedding_model.model]_vars

\* The constructor failed in one thread's load and completed in another's,
\* and a third call received the instance the second one made.
C19_Witness ==
    \E t1, t2 \in DOMAIN thread :
        /\ t1 # t2
        /\ At(t1, "done")
        /\ thread[t1].ret.v.raised
        /\ thread[t1].ret.v.exc = "OSError"
        /\ At(t2, "done")
        /\ thread[t2].calls = 2
        /\ thread[t2].entry = "load"
        /\ ~thread[t2].ret.v.raised
        /\ thread[t2].ret.v.value = Some(1)
        /\ sentence_transformers.instances = 1

----------------------------------------------------------------------------
----------------------------------------------------------------------------
(* Section scorers (core/scoring/experience_scorer.py, salary_scorer.py,     *)
(* education_scorer.py, domain_scorer.py).  Each is a static method of its   *)
(* arguments; years and salaries are whole numbers here.                     *)

MaxYears == 6

MaxSalary == 6

\* int(round(n / d)) for any sign of n and any d # 0
RoundQuotient(n, d) ==
    IF d < 0 THEN RoundHalfEven(-n, -d) ELSE RoundHalfEven(n, d)

\* ExperienceScorer.score
experience_score(min_experience_years, max_experience_years, candidate_experience_years) ==
    LET years == Max(candidate_experience_years, 0) IN
    IF ~max_experience_years.some THEN 100
    ELSE IF years <= max_experience_years.v
         THEN LET range_span == max_experience_years.v - min_experience_years IN
              IF range_span = 0 THEN 100
              ELSE \* normalized = (years - min) / range_span; round(70 + normalized * 30)
                   RoundQuotient(70 * range_span + 30 * (years - min_experience_years),
                                 range_span)
         ELSE 85

SALARY_MIN_SCORE == 75

SALARY_MAX_SCORE == 100

\* SalaryScorer.score; midpoint = (salary_min + salary_max) / 2 is kept doubled.
salary_score(salary_min, salary_max, expected_salary) ==
    LET width == salary_max - salary_min IN
    IF salary_max <= salary_min THEN SALARY_MAX_SCORE
    ELSE IF expected_salary <= salary_min THEN SALARY_MAX_SCORE
    ELSE IF 2 * expected_salary <= salary_min + salary_max
         THEN \* ratio = (expected - min) / (midpoint - min); round(100 - ratio * 10)
              RoundQuotient(SALARY_MAX_SCORE * width - 20 * (expected_salary - salary_min),
                            width)
         ELSE \* ratio = (expected - midpoint) / (max - midpoint); round(90 - ratio * 15)
              Max(RoundQuotient(90 * width
                                  - 15 * (2 * expected_salary - salary_min - salary_max),
                                width),
                  SALARY_MIN_SCORE)

\* EducationScorer.EDUCATION_RANKING, in the dict's insertion order
EDUCATION_RANKING ==
    << [key |-> <<"p","h","d">>, value |-> 100],
       [key |-> <<"d","o","c","t","o","r","a","t","e">>, value |-> 100],
       [key |-> <<"m","a","s","t","e","r","s">>, value |-> 90],
       [key |-> <<"m","a","s","t","e","r">>, value |-> 90],
       [key |-> <<"b","a","c","h","e","l","o","r","s">>, value |-> 80],
       [key |-> <<"b","a","c","h","e","l","o","r">>, value |-> 80],
       [key |-> <<"d","i","p","l","o","m","a">>, value |-> 70],
       [key |-> <<"h","i","g","h"," ","s","c","h","o","o","l">>, value |-> 65] >>

EDUCATION_DEFAULT_SCORE == 75

\* The keys of EDUCATION_RANKING that occur in education_level.strip().lower()
RankingHits(education_level) ==
    {i \in DOMAIN EDUCATION_RANKING :
        Contains(EDUCATION_RANKING[i].key, Lower(Strip(OrEmpty(education_level))))}

\* EducationScorer.score: the value of the first key found, the default otherwise.
education_score(education_level) ==
    IF ~TruthyStr(education_level) THEN EDUCATION_DEFAULT_SCORE
    ELSE LET hits == RankingHits(education_level) IN
         IF hits = {} THEN EDUCATION_DEFAULT_SCORE
         ELSE EDUCATION_RANKING[CHOOSE i \in hits : \A h \in hits : i <= h].value

DOMAIN_DEFAULT_SCORE == 75

STRONG_MATCH_SCORE == 95

PARTIAL_MATCH_SCORE == 85

\* DomainScorer.score
domain_score(job_industry, job_sub_industry, employment_summary) ==
    IF ~TruthyStr(employment_summary) THEN DOMAIN_DEFAULT_SCORE
    ELSE LET summary_normalized == Lower(employment_summary.v)
             primary == Contains(Lower(job_industry), summary_normalized)
             sub == /\ TruthyStr(job_sub_industry)
                    /\ Contains(Lower(job_sub_industry.v), summary_normalized)
         IN  IF primary /\ sub THEN STRONG_MATCH_SCORE
             ELSE IF primary \/ sub THEN PARTIAL_MATCH_SCORE
             ELSE DOMAIN_DEFAULT_SCORE

ScoreExperience ==
    /\ pc = "call"
    /\ op = "experience_score"
    /\ EndCall(Returns([score |-> experience_score(args.v.min_experience_years,
                                                   args.v.max_experience_years,
                                                   args.v.candidate_experience_years)]))
    /\ UNCHANGED callFrame

ScoreSalary ==
    /\ pc = "call"
    /\ op = "salary_score"
    /\ EndCall(Returns([score |-> salary_score(args.v.salary_min, args.v.salary_max,
                                               args.v.expected_salary)]))
    /\ UNCHANGED callFrame

ScoreEducation ==
    /\ pc = "call"
    /\ op = "education_score"
    /\ EndCall(Returns([score |-> education_score(args.v.education_level)]))
    /\ UNCHANGED callFrame

ScoreDomain ==
    /\ pc = "call"
    /\ op = "domain_score"
    /\ EndCall(Returns([score |-> domain_score(args.v.job_industry, args.v.job_sub_industry,
                                               args.v.employment_summary)]))
    /\ UNCHANGED callFrame

\* scores.get(key, 0)
ScoreOrZero(scores, key) == IF key \in DOMAIN scores THEN scores[key] ELSE 0

\* FeatureInteractionDetector._skills_compensate_experience
skills_compensate_experience(scores, c, j) ==
    /\ ScoreOrZero(scores, "skills") >= 90
    /\ ScoreOrZero(scores, "experience") < 70
    /\ 10 * c.total_experience_years >= 7 * j.min_experience_years

\* FeatureInteractionDetector._experience_compensates_skills
experience_compensates_skills(scores, c, j) ==
    /\ ScoreOrZero(scores, "experience") >= 90
    /\ ScoreOrZero(scores, "skills") >= 60
    /\ ScoreOrZero(scores, "skills") < 85
    /\ j.max_experience_years.some
    /\ j.max_experience_years.v # 0
    /\ c.total_experience_years >= j.max_experience_years.v

\* FeatureInteractionDetector._salary_skills_tradeoff, given that
\* job.max_salary is a number
salary_skills_tradeoff(scores, c, j) ==
    /\ ScoreOrZero(scores, "skills") >= 85
    /\ 10 * c.expected_salary <= 9 * j.max_salary.v.v

\* FeatureInteractionDetector._detect_career_changer
detect_career_changer(scores) ==
    ScoreOrZero(scores, "skills") >= 75 /\ ScoreOrZero(scores, "semantic") < 60

\* FeatureInteractionDetector._perfect_candidate_amplification
perfect_candidate_amplification(scores) ==
    \A key \in DOMAIN scores : scores[key] >= 85

\* FeatureInteractionDetector.detect_interactions: the interaction_id of each
\* interaction detected, in the order of the five checks.  The third check reads
\* job.max_salary once skills_score >= 85: AttributeError when the object has
\* no such attribute, TypeError (None * 0.9) when it is None.
detect_interactions(c, j, section_scores) ==
    IF ScoreOrZero(section_scores, "skills") >= 85 /\ ~j.max_salary.attr
    THEN Raises("AttributeError")
    ELSE IF ScoreOrZero(section_scores, "skills") >= 85 /\ ~j.max_salary.v.some
    THEN Raises("TypeError")
    ELSE Returns(
           (IF skills_compensate_experience(section_scores, c, j)
            THEN <<"SKILLS_COMP_EXP">> ELSE <<>>)
           \o (IF experience_compensates_skills(section_scores, c, j)
               THEN <<"EXP_COMP_SKILLS">> ELSE <<>>)
           \o (IF salary_skills_tradeoff(section_scores, c, j)
               THEN <<"SALARY_SKILLS_TRADEOFF">> ELSE <<>>)
           \o (IF detect_career_changer(section_scores)
               THEN <<"CAREER_CHANGER">> ELSE <<>>)
           \o (IF perfect_candidate_amplification(section_scores)
               THEN <<"PERFECT_CANDIDATE_AMP">> ELSE <<>>))

DetectInteractions ==
    /\ pc = "call"
    /\ op = "detect_interactions"
    /\ EndCall(detect_interactions(candidate, job, args.v.section_scores))
    /\ UNCHANGED callFrame

\* Industry names and employment summaries
DomainTexts ==
    [Logistics |-> <<"L","o","g","i","s","t","i","c","s">>,
     Freight |-> <<"F","r","e","i","g","h","t">>,
     FreightInLogistics |-> <<"f","r","e","i","g","h","t"," ","i","n"," ","L","O","G","I","S","T","I","C","S">>,
     LogisticsOnly |-> <<"l","o","g","i","s","t","i","c","s">>,
     Retail |-> <<"r","e","t","a","i","l">>]

\* The arguments the callers pass to ExperienceScorer.score
ExperienceExcerpt(j, c) ==
    [min_experience_years |-> j.min_experience_years,
     max_experience_years |-> j.max_experience_years,
     candidate_experience_years |-> c.total_experience_years]

SectionJobs ==
    {[BaseJob EXCEPT !.min_experience_years = mn, !.max_experience_years = mx] :
        mn \in 0..MaxYears, mx \in {None} \cup {Some(y) : y \in 0..MaxYears}}

SectionCandidates ==
    {[BaseCandidate EXCEPT !.total_experience_years = te] :
        te \in 0..(MaxYears + MAX_EXPERIENCE_TOLERANCE_YEARS + 1)}

InteractionJobs ==
    LET plain == {[ScoringJob EXCEPT !.min_experience_years = mn,
                                     !.max_experience_years = mx] :
                     mn \in 0..MaxYears, mx \in {None} \cup {Some(y) : y \in 0..MaxYears}}
    IN  plain \cup {WithScoringNames(j) : j \in plain}

InteractionCandidates ==
    {[ScoringCandidate EXCEPT !.total_experience_years = te] :
        te \in 0..(MaxYears + MAX_EXPERIENCE_TOLERANCE_YEARS + 1)}

\* The section scores of a pair: the experience score is the one
\* ExperienceScorer.score gives the pair.
OwnSectionScores(j, c, skills, semantic) ==
    [skills |-> skills,
     experience |-> experience_score(j.min_experience_years, j.max_experience_years,
                                     c.total_experience_years),
     semantic |-> semantic]

InitSections ==
    /\ \/ /\ op = "experience_score"
          /\ job \in SectionJobs
          /\ candidate \in SectionCandidates
          /\ args = Some(ExperienceExcerpt(job, candidate))
       \/ /\ op = "salary_score"
          /\ job = BaseJob
          /\ candidate = BaseCandidate
          /\ \E lo \in 0..MaxSalary, hi \in 0..MaxSalary, es \in 0..(MaxSalary + 2) :
                args = Some([salary_min |-> lo, salary_max |-> hi, expected_salary |-> es])
       \/ /\ op = "education_score"
          /\ job = BaseJob
          /\ candidate = BaseCandidate
          /\ \E ed \in {None} \cup {Some(s) : s \in EducationStrings} :
                args = Some([education_level |-> ed])
       \/ /\ op = "domain_score"
          /\ job = BaseJob
          /\ candidate = BaseCandidate
          /\ \E ind \in {DomainTexts.Logistics, DomainTexts.Retail},
                sub \in {None, Some(<<>>), Some(DomainTexts.Freight)},
                es \in {None, Some(<<>>), Some(DomainTexts.FreightInLogistics),
                        Some(DomainTexts.LogisticsOnly), Some(DomainTexts.Retail)} :
                args = Some([job_industry |-> ind, job_sub_industry |-> sub,
                             employment_summary |-> es])
       \/ /\ op = "detect_interactions"
          /\ job \in InteractionJobs
          /\ candidate \in InteractionCandidates
          /\ \E skills \in {60, 90}, semantic \in {55, 90} :
                args = Some([section_scores |->
                                OwnSectionScores(job, candidate, skills, semantic)])
    /\ now = Midnight(0)
    /\ pc = "call"
    /\ rule_trace = <<>>
    /\ result = None
    /\ call = 1
    /\ first = None
    /\ ret = None
    /\ stage_log = <<>>
    /\ evaluation = None
    /\ NoEmbeddingCalls

NextSections ==
    ScoreExperience \/ ScoreSalary \/ ScoreEducation \/ ScoreDomain \/ DetectInteractions

SpecSections == InitSections /\ [][NextSections]_vars

SectionOps == {"experience_score", "salary_score", "education_score", "domain_score"}

(* C21: every section scorer returns a whole score in 0..100 for every       *)
(* schema-valid input, gate-passing or not: ExperienceScorer.score for any   *)
(* minimum, any maximum or none and any candidate experience (below the      *)
(* minimum and with a maximum below the minimum included), SalaryScorer.score*)
(* for any non-negative salaries, EducationScorer.score and                  *)
(* DomainScorer.score for any strings.                                       *)
C21_SectionScoresInRange ==
    (pc = "returned" /\ op \in SectionOps) =>
        ret.v.value.score \in 0..100

----------------------------------------------------------------------------
(* Data completeness on complete inputs *)

\* A Job as core/schemas/job.py builds it: title, salary_min and salary_max,
\* and no attribute named job_title, min_salary or max_salary.
IsSchemaJob(j) ==
    /\ j.job_title = NoAttr
    /\ j.min_salary = NoAttr
    /\ j.max_salary = NoAttr

\* Every critical field of the posting and of the candidate holds a value.
AllCriticalFieldsGiven(j, c) ==
    /\ j.required_skills # <<>>
    /\ j.min_experience_years # 0
    /\ j.salary_min # 0
    /\ j.salary_max # 0
    /\ c.total_experience_years # 0
    /\ c.skills # <<>>
    /\ c.expected_salary # 0

(* C22: when every critical field of a schema-valid Job (required skills,    *)
(* minimum experience, salary minimum and maximum) and Candidate (total      *)
(* experience, skills, expected salary, nationality, current country) is     *)
(* populated, calculate_confidence reports data completeness 1.0 and no      *)
(* missing-field or incomplete-data uncertainty factor.                      *)
C22_CompleteDataIsFullyComplete ==
    (/\ op = "calculate_confidence"
     /\ call = 1
     /\ Finished
     /\ IsSchemaJob(job)
     /\ AllCriticalFieldsGiven(job, candidate)) =>
        /\ pc = "returned"
        /\ ret.v.value.data_quality_score.populated = ret.v.value.data_quality_score.total
        /\ \A i \in DOMAIN ret.v.value.uncertainty_factors :
              ret.v.value.uncertainty_factors[i] \notin {"missing_field", "incomplete_data"}

----------------------------------------------------------------------------
(* EducationScorer against the gate's education_hierarchy *)

\* The rank HR-007 gives an education string
GateRank(education_level) == EducationLevel(NormalizeString(education_level))

\* EducationScorer.score found one of its keys in the string.
Recognised(education_level) ==
    TruthyStr(education_level) /\ RankingHits(education_level) # {}

(* C23: EducationScorer uses the gate's keyword table: a string the gate     *)
(* ranks above 0 is recognised by EducationScorer and scored from its table, *)
(* a string the gate ranks 0 gets the default 75, and of two recognised      *)
(* strings the one with the higher gate rank never has the lower score.      *)
C23_EducationScorerFollowsGateTable ==
    (pc = "returned" /\ op = "education_score") =>
        LET level == args.v.education_level
            score == ret.v.value.score
        IN  /\ GateRank(level) > 0 =>
                  /\ Recognised(level)
                  /\ score \in {100, 90, 80, 70, 65}
            /\ GateRank(level) = 0 => score = EDUCATION_DEFAULT_SCORE
            /\ Recognised(level) =>
                  \A s \in EducationStrings :
                      (Recognised(Some(s)) /\ GateRank(Some(s)) > GateRank(level))
                          => education_score(Some(s)) >= score

----------------------------------------------------------------------------
(* The two skill rules of the contextual adjuster *)

\* apply_adjustments returned with an adjustment recorded for the rule.
Fired(rule_id) ==
    /\ op = "apply_adjustments"
    /\ pc = "returned"
    /\ \E k \in DOMAIN ret.v.value.adjustments :
          ret.v.value.adjustments[k].rule_id = rule_id

\* The positions of the required-skill list whose skill the candidate lists
RequiredSkillsHeld(j, c) ==
    {k \in DOMAIN j.required_skills :
        \E i \in DOMAIN c.skills : c.skills[i] = j.required_skills[k]}

(* C24: the PERFECT_SKILLS bonus fires if and only if the job has at least   *)
(* one required skill and every required skill is among the candidate's      *)
(* skills; it never fires while a required skill is missing, whatever other  *)
(* or repeated entries the candidate's list has.                             *)
C24_PerfectSkillsIffAllRequiredHeld ==
    (op = "apply_adjustments" /\ pc = "returned") =>
        (Fired("PERFECT_SKILLS") <=>
            /\ Len(job.required_skills) > 0
            /\ RequiredSkillsHeld(job, candidate) = DOMAIN job.required_skills)

(* C25: the CRITICAL_SKILL_GAP penalty fires if and only if the job lists at *)
(* least one required skill and the candidate matches fewer than 60% of      *)
(* them; a job with an empty required-skill list never incurs it.            *)
C25_SkillGapOnlyWithRequiredSkills ==
    (op = "apply_adjustments" /\ pc = "returned") =>
        /\ Fired("CRITICAL_SKILL_GAP") <=>
              /\ Len(job.required_skills) > 0
              /\ 10 * Cardinality(RequiredSkillsHeld(job, candidate))
                    < 6 * Len(job.required_skills)
        /\ job.required_skills = <<>> => ~Fired("CRITICAL_SKILL_GAP")

----------------------------------------------------------------------------
(* apply_adjustments on postings and employment histories that name their    *)
(* industry (Job.industry, EmploymentHistory.industry).                      *)

\* The record r with the attribute industry
WithIndustry(r, industry) ==
    [f \in DOMAIN r \cup {"industry"} |-> IF f = "industry" THEN industry ELSE r[f]]

IndustryJobs ==
    LET plain == {WithIndustry(ScoringJob, ind) :
                     ind \in {DomainTexts.Logistics, DomainTexts.Retail}}
    IN  plain \cup {WithScoringNames(j) : j \in plain}

IndustryHistories ==
    LET In(ind, title) == WithIndustry(Employment(title, Some(36)), ind)
        logistics == Some(DomainTexts.Logistics)
        retail == Some(DomainTexts.Retail)
    IN  {<<>>,
         <<In(logistics, Titles.Analyst)>>,
         <<In(logistics, Titles.Analyst), In(logistics, Titles.Clerk)>>,
         <<In(logistics, Titles.Analyst), In(retail, Titles.Clerk)>>,
         <<In(None, Titles.Analyst), In(None, Titles.Clerk)>>,
         <<In(logistics, Titles.SeniorAnalyst), In(logistics, Titles.Analyst),
           In(logistics, Titles.Clerk)>>}

IndustryCandidates ==
    {[ScoringCandidate EXCEPT !.employment_history = eh, !.gcc_experience_years = ge] :
        eh \in IndustryHistories, ge \in {None, Some(1), Some(5)}}

InitContinuity ==
    /\ op = "apply_adjustments"
    /\ job \in IndustryJobs
    /\ candidate \in IndustryCandidates
    /\ now = Midnight(0)
    /\ \E b \in {0, 50, 97, 100} : args = Some([base_score |-> b])
    /\ pc = "call"
    /\ rule_trace = <<>>
    /\ result = None
    /\ call = 1
    /\ first = None
    /\ ret = None
    /\ stage_log = <<>>
    /\ evaluation = None
    /\ NoEmbeddingCalls

NextContinuity == ApplyAdjustments

SpecContinuity == InitContinuity /\ [][NextContinuity]_vars

\* The candidate has held two or more jobs, all in the posting's industry.
RecentJobsInJobIndustry(j, c) ==
    /\ Len(c.employment_history) >= 2
    /\ \A i \in DOMAIN c.employment_history :
          c.employment_history[i].industry = Some(j.industry)

(* C26: the INDUSTRY_CONTINUITY bonus is applied whenever the candidate's    *)
(* two or more most recent jobs are in the posting's industry: for such a    *)
(* Job and Candidate apply_adjustments records an INDUSTRY_CONTINUITY        *)
(* adjustment.                                                               *)
C26_IndustryContinuityApplied ==
    (op = "apply_adjustments" /\ Finished /\ RecentJobsInJobIndustry(job, candidate))
        => Fired("INDUSTRY_CONTINUITY")

----------------------------------------------------------------------------
(* C27: for every pair that passes the gate, the SEVERE_OVERQUALIFIED_PENALTY *)
(* rule (experience at least 5 years over the job's maximum) does not fire in *)
(* apply_adjustments, HR-005 having rejected every candidate more than 3      *)
(* years over the maximum; also when max_experience_years is 0 or absent.     *)
C27_NoSeverePenaltyAfterGate ==
    (op = "apply_adjustments" /\ pc = "returned" /\ PassesGate(job, candidate, now))
        => ~Fired("SEVERE_OVERQUALIFIED_PENALTY")

\* A pair the gate passes with experience over the maximum: the adjuster
\* records the slight-overqualification bonus and no penalty.
C27_Witness ==
    /\ op = "apply_adjustments"
    /\ pc = "returned"
    /\ PassesGate(job, candidate, now)
    /\ job.max_experience_years.some
    /\ candidate.total_experience_years > job.max_experience_years.v
    /\ Fired("SLIGHT_OVERQUALIFIED_BONUS")
    /\ ~Fired("SEVERE_OVERQUALIFIED_PENALTY")

----------------------------------------------------------------------------
\* The ids detect_interactions returned
Reported == {ret.v.value[i] : i \in DOMAIN ret.v.value}

(* C28: for every pair that passes the gate, the score ExperienceScorer.score *)
(* gives it is at least 70, and so detect_interactions, given the pair's own  *)
(* section scores, never reports SKILLS_COMP_EXP.                             *)
C28_NoSkillsCompensationAfterGate ==
    /\ (op = "experience_score" /\ pc = "returned" /\ PassesGate(job, candidate, now))
          => ret.v.value.score >= 70
    /\ (/\ op = "detect_interactions"
        /\ pc = "returned"
        /\ PassesGate(job, candidate, now)
        /\ args.v.section_scores.experience =
              experience_score(job.min_experience_years, job.max_experience_years,
                               candidate.total_experience_years))
          => "SKILLS_COMP_EXP" \notin Reported

\* A passing pair at the bottom of the band, with the skills score the
\* interaction asks for: experience at the minimum of a wider range scores 70.
C28_Witness ==
    /\ op = "detect_interactions"
    /\ pc = "returned"
    /\ PassesGate(job, candidate, now)
    /\ args.v.section_scores.skills >= 90
    /\ args.v.section_scores.experience = 70
    /\ candidate.total_experience_years = job.min_experience_years
    /\ "SKILLS_COMP_EXP" \notin Reported

----------------------------------------------------------------------------
(* get_optimized_weights on schema postings and on objects whose             *)
(* min_experience_years is None.                                             *)

LevelJobs ==
    WeightJobs \cup {[j EXCEPT !.min_experience_years = NoMinimum] : j \in WeightJobs}

InitLevels ==
    /\ job \in LevelJobs
    /\ op = "get_optimized_weights"
    /\ args = None
    /\ InitScoringCall

NextLevels == GetOptimizedWeights

SpecLevels == InitLevels /\ [][NextLevels]_vars

----------------------------------------------------------------------------
(* C30: for any section_scores and any non-negative weights aggregate ends   *)
(* in one of two ways, with one of its two input-contract ValueErrors or     *)
(* with a result whose final_score is an integer; when the weights of the    *)
(* sections present are all 0 it still ends in one of these, not in an       *)
(* arithmetic failure.                                                       *)
C30_AggregateHasTwoOutcomes ==
    (op = "aggregate" /\ Finished) =>
        LET active == DOMAIN args.v.weights \cap DOMAIN args.v.section_scores
            all_zero == active # {} /\ \A s \in active : args.v.weights[s] = 0
        IN  /\ \/ pc = "raised" /\ ret.v.exc = "ValueError"
               \/ pc = "returned" /\ ret.v.value.final_score \in Int
            /\ all_zero => ~(pc = "raised" /\ ret.v.exc = "ZeroDivisionError")

====
